---- MODULE Spec2Model ----
(***************************************************************************)
(* House-hunting scorers, collectors and loaders of the repository.        *)
(*                                                                         *)
(* Scores are exact rationals <<n, d>> (d > 0, lowest terms): the Python   *)
(* floats of the source are modelled by the real numbers they approximate. *)
(* A house's position is its distance north of downtown Minneapolis in     *)
(* whole miles (geopy's geodesic() is a library call; one mile is 1/69 of  *)
(* a degree of latitude, the source's own fallback constant).              *)
(***************************************************************************)
EXTENDS Integers, Sequences, FiniteSets, TLC

VARIABLES
    max_budget,   \* preferences['max_budget'] / QuickHouseScorer.max_budget
    min_budget,   \* preferences['min_budget'] of the dynamic dashboard
    batch,        \* the houses handed to the scorer, in order
    results,      \* one result per scored house: what score_house returned
    rec,          \* a direct call of get_recommendation: its arguments and its label
    prop,         \* a raw listing as a collector or loader receives it
    kept,         \* what the collector or loader made of prop
    dataset,      \* the combined rows of a collection, before and after drop_duplicates
    dash,         \* a dashboard: the CSV rows it loaded and the scores it shows
    quiz,         \* a lifestyle quiz: the answers and the recommended parameters
    net           \* a caller of the listings APIs: its requests, sleeps and return value

vars == <<max_budget, min_budget, batch, results, rec, prop, kept,
          dataset, dash, quiz, net>>

----------------------------------------------------------------------------
(* Exact rational arithmetic.                                              *)

RECURSIVE GCD(_, _)
GCD(a, b) == IF b = 0 THEN a ELSE GCD(b, a % b)

Abs(x) == IF x < 0 THEN -x ELSE x

\* n/d in lowest terms with a positive denominator (d # 0)
Rat(n, d) ==
    LET s == IF d < 0 THEN -1 ELSE 1
        g == GCD(Abs(n), Abs(d))
    IN  <<(s * n) \div g, (s * d) \div g>>

LCM(a, b) == (a \div GCD(a, b)) * b

RInt(i) == <<i, 1>>
RAdd(a, b) ==
    LET d == LCM(a[2], b[2])
    IN  Rat(a[1] * (d \div a[2]) + b[1] * (d \div b[2]), d)
RNeg(a) == <<-a[1], a[2]>>
RSub(a, b) == RAdd(a, RNeg(b))
RMul(a, b) ==
    LET g1 == GCD(Abs(a[1]), b[2])
        g2 == GCD(Abs(b[1]), a[2])
    IN  Rat((a[1] \div g1) * (b[1] \div g2), (a[2] \div g2) * (b[2] \div g1))
RDiv(a, b) == RMul(a, IF b[1] < 0 THEN <<-b[2], -b[1]>> ELSE <<b[2], b[1]>>)
RLe(a, b) == RSub(a, b)[1] <= 0
RLt(a, b) == RSub(a, b)[1] < 0
RGe(a, b) == RLe(b, a)
RGt(a, b) == RLt(b, a)
RMin(a, b) == IF RLe(a, b) THEN a ELSE b
RMax(a, b) == IF RGe(a, b) THEN a ELSE b
RAbs(a) == <<Abs(a[1]), a[2]>>

Zero == RInt(0)
One == RInt(1)
In01(a) == RLe(Zero, a) /\ RLe(a, One)

\* Python's round(x, 3): to the nearest thousandth, a tie to the even one
Round3(a) ==
    LET t == 1000 * a[1]
        q == t \div a[2]
        r == t % a[2]
    IN  IF 2 * r > a[2] \/ (2 * r = a[2] /\ q % 2 = 1)
        THEN Rat(q + 1, 1000)
        ELSE Rat(q, 1000)

----------------------------------------------------------------------------
(* Raw field values: a number, Python's None, an empty string, or a string *)
(* that is not a number ('N/A').                                           *)

Num(v) == [k |-> "num", v |-> v]
None == [k |-> "none", v |-> 0]
Empty == [k |-> "empty", v |-> 0]
Str == [k |-> "str", v |-> 0]
\* the key is absent from the dictionary: house.get(field) is None
Missing == [k |-> "missing", v |-> 0]
IsNum(x) == x.k = "num"

NumericFields ==
    {"price", "bedrooms", "sqft", "year_built", "latitude", "lot_size",
     "days_on_market", "price_change", "school_rating", "walk_score"}

\* every field the plain scorers do arithmetic on holds a number
AllNumeric(house) == \A f \in NumericFields : IsNum(house[f])

\* has_garage as the scorers read it: a bool, None, or some other value
Truthy(g) == g \in {"True", "other"}

\* distance_miles * 2 ("Rough estimate: 2 min per mile")
CommuteMinutes(lat) == Abs(lat) * 2

\* a scorer that let an exception escape
Raised(who) == [by |-> who, raised |-> TRUE]

----------------------------------------------------------------------------
(* all_in_one_house_hunter.py: AdvancedHouseScorer                          *)

DefaultMaxBudget == 400000
MaxCommuteMinutes == 30
MinBedrooms == 3
MinSqft == 1200
MinYearBuilt == 2000
NeedsGarage == TRUE

AIO_weights ==
    [price |-> Rat(25, 100), commute |-> Rat(20, 100), size |-> Rat(15, 100),
     age |-> Rat(15, 100), location |-> Rat(10, 100),
     market_timing |-> Rat(10, 100), features |-> Rat(5, 100)]

\* mutant: no cut-off beyond the maximum commute
AIO_calculate_commute_score_NoCutoff(lat) ==
    RSub(One, RMul(Rat(CommuteMinutes(lat), MaxCommuteMinutes), Rat(6, 10)))

AIO_calculate_commute_score(lat) ==
    LET commute_minutes == CommuteMinutes(lat)
    IN  IF commute_minutes <= MaxCommuteMinutes
        THEN RSub(One, RMul(Rat(commute_minutes, MaxCommuteMinutes), Rat(6, 10)))
        ELSE Zero

\* mutant: the under-budget score rises with the price
AIO_calculate_price_score_RewardsHigher(price, budget) ==
    IF price <= budget
    THEN RSub(One, RMul(Rat(budget - price, budget), Rat(4, 10)))
    ELSE LET overage == Rat(price - budget, budget)
         IN  RMax(Zero, RSub(One, RMul(overage, RInt(2))))

\* mutant: the scorer keeps state, every house it has scored lowers the budget
AIO_calculate_price_score_Drifting(price, budget) ==
    LET drifted == budget - 50000 * Len(results)
    IN  IF price <= drifted
        THEN RSub(One, RMul(Rat(price, drifted), Rat(4, 10)))
        ELSE LET overage == Rat(price - drifted, drifted)
             IN  RMax(Zero, RSub(One, RMul(overage, RInt(2))))

AIO_calculate_price_score(price, budget) ==
    IF price <= budget
    THEN RSub(One, RMul(Rat(price, budget), Rat(4, 10)))
    ELSE LET overage == Rat(price - budget, budget)
         IN  RMax(Zero, RSub(One, RMul(overage, RInt(2))))

\* mutant: the bonus for a larger house is not capped at 1.0
AIO_calculate_size_score_Uncapped(sqft) ==
    IF sqft >= MinSqft
    THEN RAdd(Rat(7, 10), RMul(Rat(sqft - MinSqft, MinSqft), Rat(3, 10)))
    ELSE Rat(sqft, MinSqft)

AIO_calculate_size_score(sqft) ==
    IF sqft >= MinSqft
    THEN LET bonus == Rat(sqft - MinSqft, MinSqft)
         IN  RMin(One, RAdd(Rat(7, 10), RMul(bonus, Rat(3, 10))))
    ELSE Rat(sqft, MinSqft)

AIO_calculate_age_score(year_built) ==
    IF year_built >= MinYearBuilt
    THEN LET years_newer == year_built - MinYearBuilt
         IN  RMin(One, RAdd(Rat(8, 10), Rat(years_newer, 100)))
    ELSE LET age_penalty == Rat(MinYearBuilt - year_built, 30)
         IN  RMax(Zero, RSub(One, age_penalty))

AIO_premium_neighborhoods == {"Maple Grove", "Plymouth", "Woodbury", "Eagan"}

AIO_calculate_location_score(neighborhood, school_rating, walk_score) ==
    LET school_score == Rat(school_rating, 10)
        walk_score_norm == Rat(walk_score, 100)
        neighborhood_bonus ==
            IF neighborhood \in AIO_premium_neighborhoods THEN Rat(2, 10) ELSE Zero
    IN  RMin(One, RAdd(RAdd(RMul(school_score, Rat(6, 10)),
                            RMul(walk_score_norm, Rat(4, 10))),
                       neighborhood_bonus))

AIO_calculate_market_timing_score(days_on_market, price_change) ==
    LET dom_score ==
            IF days_on_market < 7 THEN One
            ELSE IF days_on_market < 21 THEN Rat(8, 10)
            ELSE IF days_on_market < 60 THEN Rat(6, 10)
            ELSE Rat(4, 10)
        price_change_score ==
            IF price_change < 0 THEN One
            ELSE IF price_change = 0 THEN Rat(8, 10)
            ELSE Rat(6, 10)
    IN  RAdd(RMul(dom_score, Rat(7, 10)), RMul(price_change_score, Rat(3, 10)))

AIO_calculate_features_score(has_garage, bedrooms, lot_size) ==
    LET garage == IF NeedsGarage /\ Truthy(has_garage) THEN Rat(3, 10)
                  ELSE IF ~NeedsGarage THEN Rat(3, 10) ELSE Zero
        beds == IF bedrooms >= MinBedrooms THEN Rat(2, 10) ELSE Zero
        lot == IF lot_size >= 8000 THEN Rat(2, 10)
               ELSE IF lot_size >= 6000 THEN Rat(1, 10) ELSE Zero
    IN  RMin(One, RAdd(RAdd(RAdd(Rat(5, 10), garage), beds), lot))

\* mutant: MUST SEE needs a score strictly above 0.85
AIO_get_recommendation_StrictMustSee(score, meets_requirements) ==
    IF ~meets_requirements THEN "SKIP"
    ELSE IF RGt(score, Rat(85, 100)) THEN "MUST SEE"
    ELSE IF RGe(score, Rat(75, 100)) THEN "HIGHLY RECOMMENDED"
    ELSE IF RGe(score, Rat(65, 100)) THEN "GOOD OPTION"
    ELSE IF RGe(score, Rat(55, 100)) THEN "DECENT"
    ELSE "BELOW THRESHOLD"

AIO_get_recommendation(score, meets_requirements) ==
    IF ~meets_requirements THEN "SKIP"
    ELSE IF RGe(score, Rat(85, 100)) THEN "MUST SEE"
    ELSE IF RGe(score, Rat(75, 100)) THEN "HIGHLY RECOMMENDED"
    ELSE IF RGe(score, Rat(65, 100)) THEN "GOOD OPTION"
    ELSE IF RGe(score, Rat(55, 100)) THEN "DECENT"
    ELSE "BELOW THRESHOLD"

\* the seven Round3'd component scores of a result, from the unrounded ones
Rounded(raw) == [c \in DOMAIN raw |-> Round3(raw[c])]

AIO_meets_requirements(commute_score, house) ==
    /\ RGt(commute_score, Zero)
    /\ house.bedrooms.v >= MinBedrooms
    /\ (~NeedsGarage \/ Truthy(house.has_garage))

AIO_score_house(house, budget) ==
    IF ~AllNumeric(house) THEN Raised("all_in_one")
    ELSE
    LET raw == [price |-> AIO_calculate_price_score(house.price.v, budget),
                commute |-> AIO_calculate_commute_score(house.latitude.v),
                size |-> AIO_calculate_size_score(house.sqft.v),
                age |-> AIO_calculate_age_score(house.year_built.v),
                location |-> AIO_calculate_location_score(
                    house.neighborhood, house.school_rating.v, house.walk_score.v),
                market_timing |-> AIO_calculate_market_timing_score(
                    house.days_on_market.v, house.price_change.v),
                features |-> AIO_calculate_features_score(
                    house.has_garage, house.bedrooms.v, house.lot_size.v)]
        overall_score ==
            RAdd(RAdd(RAdd(RAdd(RAdd(RAdd(
                RMul(raw.price, AIO_weights.price),
                RMul(raw.commute, AIO_weights.commute)),
                RMul(raw.size, AIO_weights.size)),
                RMul(raw.age, AIO_weights.age)),
                RMul(raw.location, AIO_weights.location)),
                RMul(raw.market_timing, AIO_weights.market_timing)),
                RMul(raw.features, AIO_weights.features))
        meets_requirements == AIO_meets_requirements(raw.commute, house)
    IN  [by |-> "all_in_one", raised |-> FALSE,
         raw |-> raw, raw_overall |-> overall_score,
         scores |-> Rounded(raw), overall_score |-> Round3(overall_score),
         meets_requirements |-> meets_requirements,
         recommendation |-> AIO_get_recommendation(overall_score, meets_requirements)]

----------------------------------------------------------------------------
(* quick_start_scorer.py: QuickHouseScorer                                  *)

Quick_weights ==
    [price |-> Rat(25, 100), commute |-> Rat(20, 100), size |-> Rat(15, 100),
     age |-> Rat(15, 100), value |-> Rat(15, 100), requirements |-> Rat(10, 100)]

Quick_score_price(price, budget) ==
    IF price <= budget
    THEN RSub(One, RMul(Rat(price, budget), Rat(5, 10)))
    ELSE LET overage == Rat(price - budget, budget)
         IN  RMax(Zero, RSub(One, overage))

\* mutant: the score falls all the way to 0 at the maximum commute
Quick_score_commute_FullFalloff(lat) ==
    LET commute_minutes == CommuteMinutes(lat)
    IN  IF commute_minutes <= MaxCommuteMinutes
        THEN RSub(One, Rat(commute_minutes, MaxCommuteMinutes))
        ELSE Zero

Quick_score_commute(lat) ==
    LET commute_minutes == CommuteMinutes(lat)
    IN  IF commute_minutes <= MaxCommuteMinutes
        THEN RSub(One, RMul(Rat(commute_minutes, MaxCommuteMinutes), Rat(7, 10)))
        ELSE Zero

Quick_score_size(sqft) ==
    IF sqft >= MinSqft
    THEN LET bonus == Rat(sqft - MinSqft, MinSqft)
         IN  RMin(One, RAdd(Rat(7, 10), RMul(bonus, Rat(3, 10))))
    ELSE Rat(sqft, MinSqft)

Quick_score_age(year_built) ==
    IF year_built >= MinYearBuilt
    THEN LET years_newer == year_built - MinYearBuilt
         IN  RMin(One, RAdd(Rat(8, 10), Rat(years_newer, 100)))
    ELSE LET age_penalty == Rat(MinYearBuilt - year_built, 25)
         IN  RMax(Zero, RSub(One, age_penalty))

\* sqft > 0 (a zero sqft raises ZeroDivisionError, see Quick_score_house)
Quick_score_value(price, sqft) ==
    LET price_per_sqft == Rat(price, sqft)
    IN  IF RLe(price_per_sqft, RInt(200)) THEN One
        ELSE IF RLe(price_per_sqft, RInt(250)) THEN Rat(8, 10)
        ELSE IF RLe(price_per_sqft, RInt(300)) THEN Rat(6, 10)
        ELSE RMax(Zero, RSub(Rat(6, 10),
                 RMul(RDiv(RSub(price_per_sqft, RInt(300)), RInt(100)), Rat(2, 10))))

Quick_score_requirements(bedrooms, has_garage, year_built) ==
    LET s1 == IF bedrooms < MinBedrooms THEN Rat(5, 10) ELSE One
        s2 == IF ~Truthy(has_garage) THEN RMul(s1, Rat(7, 10)) ELSE s1
    IN  IF year_built < 1990 THEN RMul(s2, Rat(8, 10)) ELSE s2

Quick_score_house(house_data, budget) ==
    IF ~AllNumeric(house_data) \/ house_data.sqft.v = 0 THEN Raised("quick")
    ELSE
    LET raw == [price |-> Quick_score_price(house_data.price.v, budget),
                commute |-> Quick_score_commute(house_data.latitude.v),
                size |-> Quick_score_size(house_data.sqft.v),
                age |-> Quick_score_age(house_data.year_built.v),
                value |-> Quick_score_value(house_data.price.v, house_data.sqft.v),
                requirements |-> Quick_score_requirements(
                    house_data.bedrooms.v, house_data.has_garage,
                    house_data.year_built.v)]
        overall_score ==
            RAdd(RAdd(RAdd(RAdd(RAdd(
                RMul(raw.price, Quick_weights.price),
                RMul(raw.commute, Quick_weights.commute)),
                RMul(raw.size, Quick_weights.size)),
                RMul(raw.age, Quick_weights.age)),
                RMul(raw.value, Quick_weights.value)),
                RMul(raw.requirements, Quick_weights.requirements))
    IN  [by |-> "quick", raised |-> FALSE,
         raw |-> raw, raw_overall |-> overall_score,
         scores |-> Rounded(raw), overall_score |-> Round3(overall_score),
         is_viable |-> RGt(raw.commute, Zero) /\ RGt(overall_score, Rat(6, 10))]

----------------------------------------------------------------------------
(* comprehensive_data_collector.py: AdvancedHouseScorer                     *)

Comp_weights ==
    [price |-> Rat(25, 100), commute |-> Rat(20, 100), size |-> Rat(15, 100),
     age |-> Rat(15, 100), location |-> Rat(15, 100), market |-> Rat(10, 100)]

Comp_defaults ==
    [price |-> 350000, bedrooms |-> 3, sqft |-> 1500, year_built |-> 2010,
     latitude |-> 0, has_garage |-> "True", lot_size |-> 7000,
     days_on_market |-> 30, price_change |-> 0, neighborhood |-> "Minneapolis",
     school_rating |-> 8, walk_score |-> 60]

\* one numeric field: None, '' and 'None' take the default, a number is
\* converted (float(), int(float()) for bedrooms), anything else raises
\* ValueError and takes the default
Comp_clean_number(value, default_value) ==
    IF value.k \in {"missing", "none", "empty"} THEN default_value
    ELSE IF value.k = "num" THEN value.v
    ELSE default_value

\* bool(value) if isinstance(value, bool) else default_value; None takes the default
Comp_clean_garage(value) ==
    IF value \in {"True", "False"} THEN value ELSE Comp_defaults.has_garage

Comp_ensure_scoring_compatibility(house) ==
    LET cleaned_house ==
            [f \in NumericFields |-> Comp_clean_number(house[f], Comp_defaults[f])]
        price == IF cleaned_house.price < 50000 \/ cleaned_house.price > 2000000
                 THEN Comp_defaults.price ELSE cleaned_house.price
        sqft == IF cleaned_house.sqft < 500 \/ cleaned_house.sqft > 10000
                THEN Comp_defaults.sqft ELSE cleaned_house.sqft
        year_built ==
            IF cleaned_house.year_built < 1900 \/ cleaned_house.year_built > 2025
            THEN Comp_defaults.year_built ELSE cleaned_house.year_built
    IN  [price |-> price, bedrooms |-> cleaned_house.bedrooms, sqft |-> sqft,
         year_built |-> year_built, latitude |-> cleaned_house.latitude,
         lot_size |-> cleaned_house.lot_size,
         days_on_market |-> cleaned_house.days_on_market,
         price_change |-> cleaned_house.price_change,
         school_rating |-> cleaned_house.school_rating,
         walk_score |-> cleaned_house.walk_score,
         has_garage |-> Comp_clean_garage(house.has_garage),
         neighborhood |-> house.neighborhood]

\* mutant: the within-budget discount is 0.5 of the budget share, as in
\* QuickHouseScorer
Comp_calculate_price_score_HalfShare(price) ==
    IF price <= DefaultMaxBudget
    THEN RSub(One, RMul(Rat(price, DefaultMaxBudget), Rat(5, 10)))
    ELSE RMax(Zero, RSub(One, Rat(price - DefaultMaxBudget, DefaultMaxBudget)))

Comp_calculate_price_score(price) ==
    IF price <= DefaultMaxBudget
    THEN RSub(One, RMul(Rat(price, DefaultMaxBudget), Rat(4, 10)))
    ELSE RMax(Zero, RSub(One, Rat(price - DefaultMaxBudget, DefaultMaxBudget)))

Comp_calculate_commute_score(lat) ==
    LET commute_minutes == CommuteMinutes(lat)
    IN  IF commute_minutes <= MaxCommuteMinutes
        THEN RSub(One, RMul(Rat(commute_minutes, MaxCommuteMinutes), Rat(6, 10)))
        ELSE Rat(2, 10)

Comp_calculate_size_score(sqft) ==
    IF sqft >= MinSqft
    THEN LET bonus == Rat(sqft - MinSqft, MinSqft)
         IN  RMin(One, RAdd(Rat(7, 10), RMul(bonus, Rat(3, 10))))
    ELSE Rat(sqft, MinSqft)

Comp_calculate_age_score(year_built) ==
    IF year_built >= MinYearBuilt
    THEN LET years_newer == year_built - MinYearBuilt
         IN  RMin(One, RAdd(Rat(8, 10), Rat(years_newer, 100)))
    ELSE LET age_penalty == Rat(MinYearBuilt - year_built, 25)
         IN  RMax(Rat(2, 10), RSub(One, age_penalty))

Comp_premium_areas ==
    {"Plymouth", "Maple Grove", "Woodbury", "Eden Prairie", "Minnetonka"}

Comp_calculate_location_score(neighborhood) ==
    IF neighborhood \in Comp_premium_areas THEN Rat(9, 10) ELSE Rat(7, 10)

Comp_calculate_market_score(days_on_market, price_change) ==
    LET dom_score ==
            IF days_on_market < 7 THEN One
            ELSE IF days_on_market < 21 THEN Rat(8, 10)
            ELSE Rat(6, 10)
        change_score == IF price_change < 0 THEN One ELSE Rat(8, 10)
    IN  RDiv(RAdd(dom_score, change_score), RInt(2))

Comp_get_recommendation(score, meets_requirements) ==
    IF ~meets_requirements THEN "SKIP"
    ELSE IF RGe(score, Rat(85, 100)) THEN "MUST SEE"
    ELSE IF RGe(score, Rat(75, 100)) THEN "HIGHLY RECOMMENDED"
    ELSE IF RGe(score, Rat(65, 100)) THEN "GOOD OPTION"
    ELSE "BELOW THRESHOLD"

\* mutant: the bedroom minimum is not among the requirements
Comp_meets_requirements_NoBedrooms(cleaned_house) ==
    /\ cleaned_house.price <= DefaultMaxBudget
    /\ cleaned_house.sqft >= MinSqft
    /\ cleaned_house.year_built >= MinYearBuilt
    /\ (~NeedsGarage \/ cleaned_house.has_garage = "True")

Comp_meets_requirements(cleaned_house) ==
    /\ cleaned_house.price <= DefaultMaxBudget
    /\ cleaned_house.bedrooms >= MinBedrooms
    /\ cleaned_house.sqft >= MinSqft
    /\ cleaned_house.year_built >= MinYearBuilt
    /\ (~NeedsGarage \/ cleaned_house.has_garage = "True")

\* a bedrooms value of float('inf') (or the string 'inf'): float() accepts
\* it and int() raises OverflowError
Inf == [k |-> "inf", v |-> 0]

\* ensure_scoring_compatibility catches (ValueError, TypeError) only: the
\* OverflowError of int(float(value)) escapes it
Comp_ensure_raises(house) == house.bedrooms = Inf

\* mutant: the handler lets the exception go on to the caller
Comp_scoring_failed_Reraised == Raised("comprehensive")

\* score_house's "except Exception": the default-filled result
Comp_scoring_failed ==
    [by |-> "comprehensive", raised |-> FALSE, failed |-> TRUE,
     scores |-> [price |-> Zero, commute |-> Zero, size |-> Zero, age |-> Zero,
                 location |-> Zero, market |-> Zero],
     overall_score |-> Zero,
     meets_requirements |-> FALSE,
     recommendation |-> "Scoring failed"]

Comp_score_house(house) ==
    IF Comp_ensure_raises(house) THEN Comp_scoring_failed
    ELSE
    LET cleaned_house == Comp_ensure_scoring_compatibility(house)
        raw == [price |-> Comp_calculate_price_score(cleaned_house.price),
                commute |-> Comp_calculate_commute_score(cleaned_house.latitude),
                size |-> Comp_calculate_size_score(cleaned_house.sqft),
                age |-> Comp_calculate_age_score(cleaned_house.year_built),
                location |-> Comp_calculate_location_score(cleaned_house.neighborhood),
                market |-> Comp_calculate_market_score(
                    cleaned_house.days_on_market, cleaned_house.price_change)]
        overall_score ==
            RAdd(RAdd(RAdd(RAdd(RAdd(
                RMul(raw.price, Comp_weights.price),
                RMul(raw.commute, Comp_weights.commute)),
                RMul(raw.size, Comp_weights.size)),
                RMul(raw.age, Comp_weights.age)),
                RMul(raw.location, Comp_weights.location)),
                RMul(raw.market, Comp_weights.market))
        meets_requirements == Comp_meets_requirements(cleaned_house)
    IN  [by |-> "comprehensive", raised |-> FALSE, failed |-> FALSE,
         cleaned |-> cleaned_house,
         raw |-> raw, raw_overall |-> overall_score,
         scores |-> Rounded(raw), overall_score |-> Round3(overall_score),
         meets_requirements |-> meets_requirements,
         recommendation |-> Comp_get_recommendation(overall_score, meets_requirements)]

----------------------------------------------------------------------------
(* dynamic_dashboard.py: EnhancedHouseScorer, with the sidebar's default    *)
(* requirements and weights; min_budget and max_budget are the state's.     *)

Enh_weights ==
    [price |-> Rat(30, 100), commute |-> Rat(25, 100), size |-> Rat(20, 100),
     age |-> Rat(15, 100), bedrooms |-> Rat(6, 100), neighborhood |-> Rat(4, 100)]

\* mutant: the bases of the outer two bands (0.70 and 0.55) are swapped
Enh_price_score_SwappedBands(price, minb, maxb) ==
    IF price <= maxb
    THEN IF price <= minb THEN Rat(75, 100)
         ELSE LET budget_range == maxb - minb
              IN  IF budget_range > 0
                  THEN LET position == Rat(price - minb, budget_range)
                           off == RAbs(RSub(position, Rat(5, 10)))
                       IN  IF RLe(Rat(3, 10), position) /\ RLe(position, Rat(7, 10))
                           THEN RAdd(Rat(85, 100),
                                     RMul(Rat(15, 100), RSub(One, RMul(off, RInt(4)))))
                           ELSE IF RLe(Rat(1, 10), position) /\ RLe(position, Rat(9, 10))
                           THEN RAdd(Rat(55, 100),
                                     RMul(Rat(15, 100), RSub(One, RMul(off, RInt(2)))))
                           ELSE RAdd(Rat(70, 100), RMul(Rat(15, 100), RSub(One, off)))
                  ELSE Rat(80, 100)
    ELSE LET overage_ratio == Rat(price - maxb, maxb)
         IN  IF RLe(overage_ratio, Rat(1, 10)) THEN Rat(60, 100)
             ELSE IF RLe(overage_ratio, Rat(2, 10)) THEN Rat(40, 100)
             ELSE RMax(Rat(1, 10), RSub(Rat(40, 100), overage_ratio))

Enh_price_score(price, minb, maxb) ==
    IF price <= maxb
    THEN IF price <= minb THEN Rat(75, 100)
         ELSE LET budget_range == maxb - minb
              IN  IF budget_range > 0
                  THEN LET position == Rat(price - minb, budget_range)
                           off == RAbs(RSub(position, Rat(5, 10)))
                       IN  IF RLe(Rat(3, 10), position) /\ RLe(position, Rat(7, 10))
                           THEN RAdd(Rat(85, 100),
                                     RMul(Rat(15, 100), RSub(One, RMul(off, RInt(4)))))
                           ELSE IF RLe(Rat(1, 10), position) /\ RLe(position, Rat(9, 10))
                           THEN RAdd(Rat(70, 100),
                                     RMul(Rat(15, 100), RSub(One, RMul(off, RInt(2)))))
                           ELSE RAdd(Rat(55, 100), RMul(Rat(15, 100), RSub(One, off)))
                  ELSE Rat(80, 100)
    ELSE LET overage_ratio == Rat(price - maxb, maxb)
         IN  IF RLe(overage_ratio, Rat(1, 10)) THEN Rat(60, 100)
             ELSE IF RLe(overage_ratio, Rat(2, 10)) THEN Rat(40, 100)
             ELSE RMax(Rat(1, 10), RSub(Rat(40, 100), overage_ratio))

\* latitude is a raw value: a missing (None) coordinate scores 0.40
Enh_commute_score(latitude) ==
    IF ~IsNum(latitude) THEN Rat(40, 100)
    ELSE
    LET commute_minutes == RInt(CommuteMinutes(latitude.v))
        max_commute == RInt(MaxCommuteMinutes)
        c06 == RMul(max_commute, Rat(6, 10))
        c08 == RMul(max_commute, Rat(8, 10))
        c02 == RMul(max_commute, Rat(2, 10))
    IN  IF RLe(commute_minutes, c06)
        THEN RAdd(Rat(90, 100),
                  RMul(Rat(10, 100), RSub(One, RDiv(commute_minutes, c06))))
        ELSE IF RLe(commute_minutes, c08)
        THEN LET ratio == RDiv(RSub(commute_minutes, c06), c02)
             IN  RAdd(Rat(75, 100), RMul(Rat(15, 100), RSub(One, ratio)))
        ELSE IF RLe(commute_minutes, max_commute)
        THEN LET ratio == RDiv(RSub(commute_minutes, c08), c02)
             IN  RAdd(Rat(55, 100), RMul(Rat(20, 100), RSub(One, ratio)))
        ELSE LET over_ratio == RDiv(RSub(commute_minutes, max_commute), max_commute)
             IN  RMax(Rat(1, 10), RSub(Rat(55, 100), RMul(over_ratio, Rat(5, 10))))

Enh_size_score(sqft) ==
    LET min_sqft == RInt(MinSqft)
        ideal_sqft == RMul(min_sqft, Rat(13, 10))
        s == RInt(sqft)
    IN  IF RGe(s, ideal_sqft)
        THEN IF RLe(s, RMul(ideal_sqft, Rat(15, 10)))
             THEN RAdd(Rat(85, 100),
                       RMul(Rat(15, 100),
                            RSub(One, RDiv(RSub(s, ideal_sqft),
                                           RMul(ideal_sqft, Rat(5, 10))))))
             ELSE LET excess_ratio ==
                          RDiv(RSub(s, RMul(ideal_sqft, Rat(15, 10))),
                               RMul(ideal_sqft, Rat(5, 10)))
                  IN  RMax(Rat(60, 100),
                           RSub(Rat(85, 100), RMul(excess_ratio, Rat(25, 100))))
        ELSE IF RGe(s, min_sqft)
        THEN LET ratio == RDiv(RSub(s, min_sqft), RSub(ideal_sqft, min_sqft))
             IN  RAdd(Rat(65, 100), RMul(Rat(20, 100), ratio))
        ELSE LET deficit_ratio == RDiv(RSub(min_sqft, s), min_sqft)
             IN  RMax(Rat(15, 100),
                      RSub(Rat(65, 100), RMul(deficit_ratio, Rat(5, 10))))

Enh_age_score(house_year) ==
    LET min_year == MinYearBuilt
    IN  IF house_year >= min_year + 10
        THEN LET d == house_year - min_year
                 years_new == IF d < 20 THEN d ELSE 20
             IN  RAdd(Rat(80, 100), RMul(Rat(20, 100), Rat(years_new, 20)))
        ELSE IF house_year >= min_year
        THEN RAdd(Rat(60, 100), RMul(Rat(20, 100), Rat(house_year - min_year, 10)))
        ELSE LET years_old == min_year - house_year
             IN  IF years_old <= 10
                 THEN RSub(Rat(50, 100), RMul(Rat(years_old, 10), Rat(15, 100)))
                 ELSE RMax(Rat(20, 100),
                           RSub(Rat(35, 100),
                                RMul(Rat(years_old - 10, 30), Rat(15, 100))))

Enh_bedrooms_score(bedrooms) ==
    LET min_beds == MinBedrooms
    IN  IF bedrooms = min_beds THEN Rat(75, 100)
        ELSE IF bedrooms = min_beds + 1 THEN Rat(90, 100)
        ELSE IF bedrooms >= min_beds + 2 THEN Rat(85, 100)
        ELSE RMax(Rat(25, 100),
                  RSub(Rat(75, 100), RMul(RInt(min_beds - bedrooms), Rat(25, 100))))

\* the sidebar's default selection: every neighborhood of the data (at most
\* ten), so a house of the data is in a preferred neighborhood
Enh_neighborhood_score(neighborhood, preferred_neighborhoods) ==
    IF preferred_neighborhoods = {} THEN Rat(80, 100)
    ELSE IF neighborhood \in preferred_neighborhoods THEN Rat(85, 100)
    ELSE Rat(55, 100)

Enh_recommendation(overall_score) ==
    IF RGe(overall_score, Rat(88, 100)) THEN "MUST SEE"
    ELSE IF RGe(overall_score, Rat(78, 100)) THEN "HIGHLY RECOMMENDED"
    ELSE IF RGe(overall_score, Rat(65, 100)) THEN "GOOD OPTION"
    ELSE IF RGe(overall_score, Rat(50, 100)) THEN "DECENT"
    ELSE "BELOW THRESHOLD"

\* noise is the value random.uniform(-0.02, 0.02) returned
Enh_calculate_score(house, minb, maxb, preferred_neighborhoods, noise) ==
    IF \E f \in NumericFields \ {"latitude"} : ~IsNum(house[f])
    THEN Raised("enhanced")
    ELSE
    LET scores == [price |-> Enh_price_score(house.price.v, minb, maxb),
                   commute |-> Enh_commute_score(house.latitude),
                   size |-> Enh_size_score(house.sqft.v),
                   age |-> Enh_age_score(house.year_built.v),
                   bedrooms |-> Enh_bedrooms_score(house.bedrooms.v),
                   neighborhood |-> Enh_neighborhood_score(
                       house.neighborhood, preferred_neighborhoods)]
        raw_overall ==
            RAdd(RAdd(RAdd(RAdd(RAdd(
                RMul(scores.price, Enh_weights.price),
                RMul(scores.commute, Enh_weights.commute)),
                RMul(scores.size, Enh_weights.size)),
                RMul(scores.age, Enh_weights.age)),
                RMul(scores.bedrooms, Enh_weights.bedrooms)),
                RMul(scores.neighborhood, Enh_weights.neighborhood))
        overall_score == RMax(Rat(1, 10), RMin(One, RAdd(raw_overall, noise)))
    IN  [by |-> "enhanced", raised |-> FALSE,
         raw |-> scores, raw_overall |-> raw_overall,
         scores |-> scores, overall_score |-> overall_score,
         recommendation |-> Enh_recommendation(overall_score)]

----------------------------------------------------------------------------
(* Collectors and loaders: what becomes of one raw listing.  A listing has *)
(* the raw fields price, bedrooms, bathrooms, sqft, year_built, latitude.  *)

\* Python's round(x, 0) of price / sqft: the nearest integer, a tie to the even one
Round0(a) ==
    LET q == a[1] \div a[2]
        r == a[1] % a[2]
    IN  IF 2 * r > a[2] \/ (2 * r = a[2] /\ q % 2 = 1) THEN q + 1 ELSE q

\* the latitude estimate_coordinates() draws for an address that names no
\* suburb: downtown plus random.uniform(-0.1, 0.1) degrees (about 6 miles)
EstimatedLatitudes == {-6, 0, 6}

ListingFields == {"price", "bedrooms", "bathrooms", "sqft", "year_built", "latitude"}

\* test_real_data.py ZillowRapidAPI.clean_house_data: defaults
Rapid_defaults ==
    [price |-> 0, bedrooms |-> 3, bathrooms |-> 2, sqft |-> 1200,
     year_built |-> 2000, latitude |-> 0]

\* one numeric field: None, '' and 'None' take the default; a falsy number
\* (0) takes the default; a string that is no number raises ValueError and
\* takes the default
Rapid_clean_number(value, default_value) ==
    IF value.k \in {"missing", "none", "empty"} THEN default_value
    ELSE IF value.k = "num" THEN (IF value.v # 0 THEN value.v ELSE default_value)
    ELSE default_value

Rapid_clean_house_data(house) ==
    LET cleaned == [f \in ListingFields |->
                        IF f = "latitude"
                        \* miles from downtown: 0 here is not the falsy 0.0 degrees
                        THEN (IF IsNum(house[f]) THEN house[f].v ELSE Rapid_defaults[f])
                        ELSE Rapid_clean_number(house[f], Rapid_defaults[f])]
    IN  [cleaned EXCEPT
            !.price = IF @ < 50000 \/ @ > 2000000 THEN 0 ELSE @,
            !.sqft = IF @ < 500 \/ @ > 10000 THEN Rapid_defaults.sqft ELSE @,
            !.year_built = IF @ < 1900 \/ @ > 2025 THEN Rapid_defaults.year_built ELSE @,
            !.bedrooms = IF @ < 1 \/ @ > 10 THEN Rapid_defaults.bedrooms ELSE @]

\* test_real_data.py ZillowRapidAPI.extract_property_details, as
\* parse_zillow_response collects it: <<house>>, or <<>> for a skipped listing.
\* est is the latitude estimated from the address when the listing has none.
Rapid_extract_property_details(listing, est) ==
    LET latitude == IF IsNum(listing.latitude) THEN listing.latitude ELSE Num(est)
        house == Rapid_clean_house_data([listing EXCEPT !.latitude = latitude])
    IN  IF house.price > 0 /\ house.sqft > 0
        THEN <<house @@ [price_per_sqft |-> Round0(Rat(house.price, house.sqft))]>>
        ELSE <<>>

\* test_real_data.py ensure_scoring_compatibility (module level): the table
\* house.get(field, default) is built from
Test_scorer_defaults ==
    [price |-> 0, bedrooms |-> 3, bathrooms |-> 2, sqft |-> 1200,
     year_built |-> 2000, latitude |-> 0, lot_size |-> 7000,
     days_on_market |-> 30, price_change |-> 0, school_rating |-> 8,
     walk_score |-> 60]

\* one numeric field of the module-level ensure_scoring_compatibility.
\* required_scorer_fields[field] is house.get(field, default): the default
\* only when the key is absent.  A missing or None field is set to that
\* entry; a field float() cannot convert is set to that entry as well.
Test_ensure_field(value, default_value) ==
    LET required == IF value.k = "missing" THEN Num(default_value) ELSE value
        merged == IF value.k \in {"missing", "none"} THEN required ELSE value
    IN  IF IsNum(merged) THEN merged ELSE required

\* the returned house, each numeric field as the raw value it holds
Test_ensure_scoring_compatibility(house) ==
    [f \in DOMAIN Test_scorer_defaults |->
        Test_ensure_field(house[f], Test_scorer_defaults[f])]

\* comprehensive_data_collector.py ZillowDataCollector.safe_get_number
Collector_safe_get_number(value, default_value) ==
    IF value.k = "num" THEN value.v ELSE default_value

\* mutant: the price is not among the validated fields
Collector_validate_house_data_NoPrice(house) ==
    /\ 1 <= house.bedrooms /\ house.bedrooms <= 10
    /\ 1 <= house.bathrooms /\ house.bathrooms <= 10
    /\ 500 <= house.sqft /\ house.sqft <= 10000
    /\ 1900 <= house.year_built /\ house.year_built <= 2025
    /\ -67 <= house.latitude /\ house.latitude <= 70

Collector_validate_house_data(house) ==
    /\ 50000 <= house.price /\ house.price <= 2000000
    /\ 1 <= house.bedrooms /\ house.bedrooms <= 10
    /\ 1 <= house.bathrooms /\ house.bathrooms <= 10
    /\ 500 <= house.sqft /\ house.sqft <= 10000
    /\ 1900 <= house.year_built /\ house.year_built <= 2025
    \* 44 <= latitude <= 46, in miles north of downtown (44.9778)
    /\ -67 <= house.latitude /\ house.latitude <= 70

\* comprehensive_data_collector.py ZillowDataCollector.extract_property_details,
\* as parse_zillow_response collects it
Collector_extract_property_details(listing, est) ==
    LET house ==
            [price |-> Collector_safe_get_number(listing.price, 0),
             bedrooms |-> Collector_safe_get_number(listing.bedrooms, 3),
             bathrooms |-> Collector_safe_get_number(listing.bathrooms, 2),
             sqft |-> Collector_safe_get_number(listing.sqft, 1200),
             year_built |-> Collector_safe_get_number(listing.year_built, 2000),
             latitude |-> Collector_safe_get_number(listing.latitude, est)]
        price_per_sqft ==
            IF house.price # 0 /\ house.sqft > 0
            THEN Round0(Rat(house.price, house.sqft)) ELSE 0
    IN  IF Collector_validate_house_data(house)
        THEN <<house @@ [price_per_sqft |-> price_per_sqft]>>
        ELSE <<>>

\* dynamic_dashboard.py ComprehensiveDataLoader.clean_data: the defaults of a
\* missing value (fillna), and of a value that is no number (to_numeric)
Loader_required_columns ==
    [price |-> 0, bedrooms |-> 3, bathrooms |-> 2, sqft |-> 1500,
     year_built |-> 2000, latitude |-> 0]

Loader_numeric_defaults ==
    [price |-> 350000, bedrooms |-> 3, bathrooms |-> 2, sqft |-> 1500,
     year_built |-> 2000, latitude |-> 0]

\* clean_data on a dataframe of one row: the rows it returns
Loader_clean_data(row) ==
    LET filled == [f \in ListingFields |->
                       IF row[f].k \in {"none", "empty"}
                       THEN Loader_required_columns[f]
                       ELSE IF row[f].k = "num" THEN row[f].v
                       ELSE Loader_numeric_defaults[f]]
    IN  IF /\ filled.price >= 50000 /\ filled.price <= 2000000
           /\ filled.sqft >= 500 /\ filled.sqft <= 10000
           /\ filled.bedrooms >= 1 /\ filled.bedrooms <= 10
           /\ filled.bathrooms >= 1 /\ filled.bathrooms <= 10
           /\ filled.year_built >= 1900 /\ filled.year_built <= 2025
        THEN <<filled @@ [price_per_sqft |-> Round0(Rat(filled.price, filled.sqft))]>>
        ELSE <<>>

----------------------------------------------------------------------------
(* Deduplication of the combined rows.  A row has its listing ID (zpid, a  *)
(* number or NaN), its address, the date of the file it came from, and     *)
(* whether clean_data keeps it.                                            *)

\* mutant: a row is compared with the row kept just before it only
RECURSIVE DropDuplicates_AdjacentOnly(_, _)
DropDuplicates_AdjacentOnly(rows, subset) ==
    IF rows = <<>> THEN <<>>
    ELSE LET front == DropDuplicates_AdjacentOnly(SubSeq(rows, 1, Len(rows) - 1), subset)
             last == rows[Len(rows)]
         IN  IF front # <<>> /\ front[Len(front)][subset] = last[subset]
             THEN front ELSE Append(front, last)

\* pandas df.drop_duplicates(subset=[subset], keep='first'); NaN equals NaN
RECURSIVE DropDuplicates(_, _)
DropDuplicates(rows, subset) ==
    IF rows = <<>> THEN <<>>
    ELSE LET front == DropDuplicates(SubSeq(rows, 1, Len(rows) - 1), subset)
             last == rows[Len(rows)]
         IN  IF \E i \in 1..Len(front) : front[i][subset] = last[subset]
             THEN front ELSE Append(front, last)

FileDates == {1, 2}

\* mutant: the sort is ascending, earlier files first
SortByFileDate_OldestFirst(rows) ==
    SelectSeq(rows, LAMBDA r : r.file_date = 1) \o
    SelectSeq(rows, LAMBDA r : r.file_date = 2)

\* df.sort_values('file_date', ascending=False): later files first
SortByFileDate(rows) ==
    SelectSeq(rows, LAMBDA r : r.file_date = 2) \o
    SelectSeq(rows, LAMBDA r : r.file_date = 1)

\* comprehensive_data_collector.py get_comprehensive_data
Comp_deduplicate(rows) == DropDuplicates(rows, "zpid")

\* real_data_integrator.py get_enhanced_market_data
Integrator_deduplicate(rows) == DropDuplicates(rows, "address")

\* dynamic_dashboard.py load_all_data: by zpid when the combined frame has
\* the column, by address otherwise; then clean_data drops invalid rows
Loader_deduplicate(rows, has_zpid) ==
    SelectSeq(DropDuplicates(SortByFileDate(rows), IF has_zpid THEN "zpid" ELSE "address"),
              LAMBDA r : r.clean)

----------------------------------------------------------------------------
(* Dashboards: the score a dashboard ranks and displays for one row of the *)
(* CSV it loaded.  row.overall_score is the file's column: absent, or the  *)
(* number an earlier scoring pass exported.                                *)

\* live_dashboard.py: load_house_data returns the frame as read; main() sorts
\* and displays its overall_score column when there is one, 'N/A' otherwise
Live_shown(row) ==
    IF IsNum(row.overall_score)
    THEN [source |-> "file", overall_score |-> row.overall_score.v]
    ELSE [source |-> "none"]

\* live_dashboard_broken.py score_houses_if_needed: ensure_scoring_compatibility,
\* then AdvancedHouseScorer() with its default preferences
Broken_score_houses_if_needed(row) ==
    LET house_dict ==
            [f \in DOMAIN row |->
                IF f \in NumericFields
                THEN Test_ensure_field(row[f], Test_scorer_defaults[f])
                ELSE row[f]]
    IN  [source |-> "scorer",
         overall_score |-> AIO_score_house(house_dict, DefaultMaxBudget).overall_score]

\* live_dashboard_broken.py load_house_data: scores only a file that has no
\* overall_score column
Broken_shown(row) ==
    IF ~IsNum(row.overall_score)
    THEN Broken_score_houses_if_needed(row)
    ELSE [source |-> "file", overall_score |-> row.overall_score.v]

\* dynamic_dashboard.py apply_enhanced_scoring: scored_house.update(scores)
Dynamic_shown(row, minb, maxb, preferred_neighborhoods, noise) ==
    [source |-> "scorer",
     overall_score |->
        Enh_calculate_score(row, minb, maxb, preferred_neighborhoods, noise).overall_score]

----------------------------------------------------------------------------
(* The lifestyle quiz: recommended parameters in three priority lists, and *)
(* the weight of each recommended parameter.                               *)

Range(seq) == {seq[i] : i \in 1..Len(seq)}

\* lst[:n]
Take(lst, n) == SubSeq(lst, 1, IF Len(lst) < n THEN Len(lst) ELSE n)

\* for x in xs: lst.append(x)
Extend(lst, xs) == lst \o xs

\* for x in xs: if x in allowed and x not in lst: lst.append(x)
RECURSIVE ExtendNew(_, _, _)
ExtendNew(lst, xs, allowed) ==
    IF xs = <<>> THEN lst
    ELSE ExtendNew(IF xs[1] \in allowed /\ xs[1] \notin Range(lst)
                   THEN Append(lst, xs[1]) ELSE lst,
                   Tail(xs), allowed)

\* "Remove duplicates and limit counts": each list keeps the known
\* parameters no higher list holds (a repeat inside one list stays), then
\* is cut to 12, 10 and 8 entries
Quiz_limit(recommendations, parameters) ==
    LET high == SelectSeq(recommendations.high_priority, LAMBDA x : x \in parameters)
        medium == SelectSeq(recommendations.medium_priority,
                            LAMBDA x : x \in parameters /\ x \notin Range(high))
        low == SelectSeq(recommendations.low_priority,
                         LAMBDA x : x \in parameters /\ x \notin Range(high)
                                                     /\ x \notin Range(medium))
    IN  [high_priority |-> Take(high, 12),
         medium_priority |-> Take(medium, 10),
         low_priority |-> Take(low, 8)]

\* the weights dictionary: 0.6, 0.3 and 0.1 shared out over the entries of
\* the high, medium and low list; a later assignment to a key replaces an
\* earlier one
Quiz_weights(recommendations) ==
    LET Share(total, lst) == RDiv(total, RInt(IF Len(lst) > 1 THEN Len(lst) ELSE 1))
        high_weight == Share(Rat(6, 10), recommendations.high_priority)
        medium_weight == Share(Rat(3, 10), recommendations.medium_priority)
        low_weight == Share(Rat(1, 10), recommendations.low_priority)
    IN  [x \in Range(recommendations.high_priority)
               \cup Range(recommendations.medium_priority)
               \cup Range(recommendations.low_priority) |->
            IF x \in Range(recommendations.low_priority) THEN low_weight
            ELSE IF x \in Range(recommendations.medium_priority) THEN medium_weight
            ELSE high_weight]

Quiz_core_params == <<"purchase_price", "square_footage", "bedrooms", "bathrooms">>

\* seamless_integrated_profiler.py PARAMETERS: the parameter IDs
Seamless_PARAMETERS ==
    {"purchase_price", "price_per_sqft", "total_monthly_cost", "property_taxes",
     "commute_time", "school_ratings", "walkability", "crime_rate",
     "neighborhood_quality", "square_footage", "bedrooms", "bathrooms",
     "garage_spaces", "year_built", "home_office", "lot_size", "privacy_level"}

Seamless_buyer_type_mapping ==
    "First-time buyer" :>
        [high |-> <<"price_per_sqft", "total_monthly_cost", "property_taxes">>,
         medium |-> <<"year_built", "neighborhood_quality">>,
         low |-> <<"walkability">>] @@
    "Family with kids" :>
        [high |-> <<"school_ratings", "crime_rate", "lot_size", "garage_spaces">>,
         medium |-> <<"neighborhood_quality", "privacy_level">>,
         low |-> <<"walkability">>] @@
    "Empty nesters" :>
        [high |-> <<"walkability", "neighborhood_quality", "crime_rate">>,
         medium |-> <<"commute_time">>,
         low |-> <<"school_ratings", "lot_size">>] @@
    "Young professional" :>
        [high |-> <<"commute_time", "walkability", "neighborhood_quality">>,
         medium |-> <<"price_per_sqft">>,
         low |-> <<"school_ratings", "lot_size">>] @@
    "Remote worker" :>
        [high |-> <<"home_office", "square_footage", "privacy_level">>,
         medium |-> <<"neighborhood_quality">>,
         low |-> <<"commute_time">>] @@
    "Investor" :>
        [high |-> <<"price_per_sqft", "neighborhood_quality", "school_ratings">>,
         medium |-> <<"crime_rate", "property_taxes">>,
         low |-> <<"home_office">>]

Seamless_priority_mapping ==
    "Low maintenance" :> <<"year_built">> @@
    "Good schools" :> <<"school_ratings">> @@
    "Walkable area" :> <<"walkability">> @@
    "Privacy" :> <<"lot_size", "privacy_level">> @@
    "Modern updates" :> <<"year_built">> @@
    "Large yard" :> <<"lot_size">> @@
    "Home office" :> <<"home_office", "square_footage">> @@
    "Storage space" :> <<"square_footage">> @@
    "Investment potential" :> <<"school_ratings", "neighborhood_quality">> @@
    "Energy efficiency" :> <<"year_built">>

\* for priority in answers['priorities']: the mapped parameters not yet in
\* the high list are appended to it
RECURSIVE Quiz_add_priorities(_, _, _, _)
Quiz_add_priorities(high, priorities, priority_mapping, parameters) ==
    IF priorities = <<>> THEN high
    ELSE Quiz_add_priorities(
             ExtendNew(high, priority_mapping[priorities[1]], parameters),
             Tail(priorities), priority_mapping, parameters)

\* seamless_integrated_profiler.py ParameterAnalyzer.recommend_parameters_from_answers
Seamless_recommend_parameters_from_answers(answers) ==
    LET buyer == Seamless_buyer_type_mapping[answers.buyer_type]
        high1 == ExtendNew(Quiz_core_params, buyer.high, Seamless_PARAMETERS)
        medium1 == ExtendNew(<<>>, buyer.medium, Seamless_PARAMETERS)
        low1 == ExtendNew(<<>>, buyer.low, Seamless_PARAMETERS)
        remote == answers.work_situation = "Fully remote"
        high2 ==
            IF answers.work_situation \in {"Fixed office location", "Hybrid work"}
            THEN ExtendNew(high1, <<"commute_time">>, {"commute_time"})
            ELSE IF remote
            THEN SelectSeq(ExtendNew(high1, <<"home_office">>, {"home_office"}),
                           LAMBDA x : x # "commute_time")
            ELSE high1
        low2 == IF remote /\ "commute_time" \in Range(high1)
                THEN ExtendNew(low1, <<"commute_time">>, {"commute_time"})
                ELSE low1
        high3 == Quiz_add_priorities(high2, answers.priorities,
                                     Seamless_priority_mapping, Seamless_PARAMETERS)
        tight == <<"total_monthly_cost", "property_taxes">>
        high4 == IF answers.budget_flexibility = "Very tight"
                 THEN ExtendNew(high3, tight, Range(tight)) ELSE high3
    IN  Quiz_limit([high_priority |-> high4, medium_priority |-> medium1,
                    low_priority |-> low2], Seamless_PARAMETERS)

\* seamless_integrated_profiler.py ParameterAnalyzer.analyze_quiz_responses:
\* (param_weights, recommendations)
Seamless_analyze_quiz_responses(answers) ==
    LET recommendations == Seamless_recommend_parameters_from_answers(answers)
    IN  [recommendations |-> recommendations,
         param_weights |-> Quiz_weights(recommendations)]

\* parameter_workshop_fixed.py PARAMETERS: the parameter IDs
Workshop_PARAMETERS ==
    {"purchase_price", "price_per_sqft", "total_monthly_cost", "property_taxes",
     "days_on_market", "price_history", "hoa_fees", "zestimate_accuracy",
     "appreciation_history", "market_temperature", "commute_time",
     "commute_options", "school_ratings", "school_distance", "walkability",
     "bike_score", "transit_score", "crime_rate", "neighborhood_quality",
     "grocery_distance", "healthcare_access", "entertainment_options",
     "parks_recreation", "noise_level", "future_development", "square_footage",
     "bedrooms", "bathrooms", "master_suite", "kitchen_quality",
     "open_floor_plan", "finished_basement", "storage_space", "home_office",
     "outdoor_living", "year_built", "recent_updates", "roof_age", "hvac_age",
     "windows_quality", "insulation_quality", "foundation_condition", "lot_size",
     "usable_yard", "privacy_level", "mature_trees", "landscaping", "drainage",
     "corner_lot", "garage_spaces", "garage_type", "driveway_size",
     "workshop_space", "rv_parking", "pool_spa", "view_quality", "waterfront",
     "pet_friendly", "smart_home", "solar_panels", "accessibility"}

Workshop_buyer_type_params ==
    "First-time buyer" :>
        [high |-> <<"price_per_sqft", "total_monthly_cost", "property_taxes">>,
         medium |-> <<"year_built", "recent_updates", "days_on_market">>,
         low |-> <<"pool_spa", "view_quality">>] @@
    "Family with kids" :>
        [high |-> <<"school_ratings", "school_distance", "crime_rate", "usable_yard">>,
         medium |-> <<"parks_recreation", "finished_basement", "storage_space">>,
         low |-> <<"smart_home", "workshop_space">>] @@
    "Empty nesters" :>
        [high |-> <<"master_suite", "accessibility", "healthcare_access">>,
         medium |-> <<"walkability", "maintenance_level", "single_level">>,
         low |-> <<"school_ratings", "school_distance">>] @@
    "Investor" :>
        [high |-> <<"price_per_sqft", "appreciation_history", "rental_potential">>,
         medium |-> <<"market_temperature", "neighborhood_quality", "crime_rate">>,
         low |-> <<"personal_preferences", "unique_features">>] @@
    "Young professional" :>
        [high |-> <<"commute_time", "commute_options", "entertainment_options">>,
         medium |-> <<"walkability", "modern_updates", "smart_home">>,
         low |-> <<"school_ratings", "large_yard", "storage_space">>] @@
    "Remote worker" :>
        [high |-> <<"home_office", "internet_quality", "square_footage">>,
         medium |-> <<"quiet_area", "outdoor_living", "walkability">>,
         low |-> <<"commute_time", "commute_options">>]

Workshop_priority_mapping ==
    "Low maintenance" :> <<"year_built", "recent_updates", "roof_age", "hvac_age">> @@
    "Good schools" :> <<"school_ratings", "school_distance">> @@
    "Walkable area" :> <<"walkability", "transit_score", "grocery_distance">> @@
    "Privacy" :> <<"lot_size", "privacy_level", "corner_lot">> @@
    "Modern updates" :> <<"kitchen_quality", "recent_updates", "smart_home">> @@
    "Large yard" :> <<"lot_size", "usable_yard", "landscaping">> @@
    "Home office" :> <<"home_office", "square_footage", "quiet_area">> @@
    "Storage space" :> <<"storage_space", "garage_spaces", "finished_basement">> @@
    "Investment potential" :>
        <<"appreciation_history", "school_ratings", "neighborhood_quality">> @@
    "Energy efficiency" :> <<"insulation_quality", "windows_quality", "solar_panels">>

\* parameter_workshop_fixed.py recommend_parameters
Workshop_recommend_parameters(answers) ==
    LET buyer_params == Workshop_buyer_type_params[answers.buyer_type]
        Known(params) == SelectSeq(params, LAMBDA x : x \in Workshop_PARAMETERS)
        high1 == Extend(Quiz_core_params, Known(buyer_params.high))
        medium1 == Known(buyer_params.medium)
        low1 == Known(buyer_params.low)
        remote == answers.work_situation = "Fully remote"
        high2 ==
            IF answers.work_situation \in {"Fixed office location", "Hybrid work"}
            THEN Extend(high1, <<"commute_time", "commute_options">>)
            ELSE IF remote THEN Append(high1, "home_office")
            ELSE high1
        low2 == IF remote THEN Append(low1, "commute_time") ELSE low1
        high3 == Quiz_add_priorities(high2, answers.priorities,
                                     Workshop_priority_mapping, Workshop_PARAMETERS)
        high4 == IF answers.budget_flexibility = "Very tight"
                 THEN Extend(high3, <<"total_monthly_cost", "property_taxes", "hoa_fees">>)
                 ELSE high3
    IN  Quiz_limit([high_priority |-> high4, medium_priority |-> medium1,
                    low_priority |-> low2], Workshop_PARAMETERS)

\* parameter_definitions.py PARAMETERS: the parameter IDs
Defs_PARAMETERS ==
    {"purchase_price", "price_per_sqft", "total_monthly_cost", "property_taxes",
     "days_on_market", "price_history", "hoa_fees", "commute_time",
     "school_ratings", "walkability", "crime_rate", "neighborhood_quality",
     "neighborhoods", "square_footage", "bedrooms", "bathrooms", "garage_spaces",
     "year_built", "home_office", "lot_size", "privacy_level"}

Defs_buyer_type_params ==
    "First-time buyer" :>
        [high |-> <<"price_per_sqft", "total_monthly_cost", "property_taxes">>,
         medium |-> <<"year_built", "days_on_market">>,
         low |-> <<>>] @@
    "Family with kids" :>
        [high |-> <<"school_ratings", "crime_rate", "lot_size">>,
         medium |-> <<"neighborhood_quality", "home_office">>,
         low |-> <<"walkability">>] @@
    "Empty nesters" :>
        [high |-> <<"walkability", "neighborhood_quality">>,
         medium |-> <<"crime_rate">>,
         low |-> <<"school_ratings", "lot_size">>] @@
    "Young professional" :>
        [high |-> <<"commute_time", "walkability">>,
         medium |-> <<"neighborhood_quality">>,
         low |-> <<"school_ratings", "lot_size">>] @@
    "Remote worker" :>
        [high |-> <<"home_office", "square_footage">>,
         medium |-> <<"neighborhood_quality", "privacy_level">>,
         low |-> <<"commute_time">>]

\* priority_mapping, and no parameter for a priority it does not list
Defs_priority_mapping ==
    "Low maintenance" :> <<"year_built">> @@
    "Good schools" :> <<"school_ratings">> @@
    "Walkable area" :> <<"walkability">> @@
    "Privacy" :> <<"lot_size", "privacy_level">> @@
    "Modern updates" :> <<"year_built">> @@
    "Large yard" :> <<"lot_size">> @@
    "Home office" :> <<"home_office", "square_footage">> @@
    "Investment potential" :> <<"school_ratings", "neighborhood_quality">> @@
    "Storage space" :> <<>> @@
    "Energy efficiency" :> <<>>

\* lst.remove(x): the first x is taken out
RemoveFirst(lst, x) ==
    IF x \notin Range(lst) THEN lst
    ELSE LET i == CHOOSE i \in 1..Len(lst) :
                     lst[i] = x /\ \A j \in 1..(i - 1) : lst[j] # x
         IN  SubSeq(lst, 1, i - 1) \o SubSeq(lst, i + 1, Len(lst))

\* parameter_definitions.py recommend_parameters
Defs_recommend_parameters(answers) ==
    LET buyer_params ==
            IF answers.buyer_type \in DOMAIN Defs_buyer_type_params
            THEN Defs_buyer_type_params[answers.buyer_type]
            ELSE Defs_buyer_type_params["Family with kids"]
        Known(params) == SelectSeq(params, LAMBDA x : x \in Defs_PARAMETERS)
        high1 == Extend(Quiz_core_params, Known(buyer_params.high))
        medium1 == Known(buyer_params.medium)
        low1 == Known(buyer_params.low)
        remote == answers.work_situation = "Fully remote"
        with_office == ExtendNew(high1, <<"home_office">>, {"home_office"})
        high2 ==
            IF answers.work_situation \in {"Fixed office location", "Hybrid work"}
            THEN ExtendNew(high1, <<"commute_time">>, {"commute_time"})
            ELSE IF remote THEN RemoveFirst(with_office, "commute_time")
            ELSE high1
        low2 == IF remote /\ "commute_time" \in Range(with_office)
                THEN Append(low1, "commute_time") ELSE low1
        high3 == Quiz_add_priorities(high2, answers.priorities,
                                     Defs_priority_mapping, Defs_PARAMETERS)
    IN  Quiz_limit([high_priority |-> high3, medium_priority |-> medium1,
                    low_priority |-> low2], Defs_PARAMETERS)

\* parameter_workshop_fixed.py display_recommendations: the weights it creates
Workshop_display_recommendations(recommendations) ==
    [recommendations |-> recommendations,
     param_weights |-> Quiz_weights(recommendations)]

----------------------------------------------------------------------------
(* Callers of the listings APIs.  The outcome of one HTTP GET is a 200     *)
(* response whose body holds some number of valid listings, another status,*)
(* an exception of requests (network error, timeout), or a 200 response    *)
(* whose body response.json() cannot parse.  A list of houses is modelled  *)
(* by its length.                                                          *)

Ok(n) == [status |-> "200", listings |-> n]
Non200 == [status |-> "non-200", listings |-> 0]
NetworkError == [status |-> "exception", listings |-> 0]
Unparsable == [status |-> "unparsable", listings |-> 0]

\* what a search function handed its caller
Returned(n) == [raised |-> FALSE, houses |-> n]
Escaped == [raised |-> TRUE, houses |-> 0]

\* comprehensive_data_collector.py ZillowDataCollector.search_minneapolis_houses.
\* Without RAPIDAPI_KEY __init__ returns before it sets self.headers, and
\* the AttributeError of requests.get(url, headers=self.headers, ...) is
\* raised inside the try.
Comp_search_minneapolis_houses(has_key, outcome) ==
    IF ~has_key THEN Returned(0)
    ELSE IF outcome.status = "200" THEN Returned(outcome.listings)
    ELSE Returned(0)

\* real_data_integrator.py RealEstateDataIntegrator.get_zillow_rentals_api
Integrator_get_zillow_rentals_api(has_key, outcome) ==
    IF ~has_key THEN Returned(0)
    ELSE IF outcome.status = "200" THEN Returned(outcome.listings)
    ELSE Returned(0)

\* mutant: the request is made outside any try
Integrator_get_rapidapi_zillow_NoHandler(has_key, outcome) ==
    IF ~has_key THEN Returned(0)
    ELSE IF outcome.status = "200" THEN Returned(outcome.listings)
    ELSE IF outcome.status = "non-200" THEN Returned(0)
    ELSE Escaped

\* real_data_integrator.py RealEstateDataIntegrator.get_rapidapi_zillow
Integrator_get_rapidapi_zillow(has_key, outcome) ==
    IF ~has_key THEN Returned(0)
    ELSE IF outcome.status = "200" THEN Returned(outcome.listings)
    ELSE Returned(0)

\* whether the function got as far as its HTTP GET
Requested(has_key) == has_key

\* the entries a caller appends to its log
Request == [e |-> "request", seconds |-> 0]
Sleep(seconds) == [e |-> "sleep", seconds |-> seconds]

\* one pass of the loop of get_comprehensive_data: the search, then
\* time.sleep(3) unless the search raised
Comp_search_pass(has_key, outcome) ==
    LET houses == Comp_search_minneapolis_houses(has_key, outcome)
    IN  [call |-> [fn |-> "search_minneapolis_houses", has_key |-> has_key,
                   outcome |-> outcome, returned |-> houses],
         log |-> (IF Requested(has_key) THEN <<Request>> ELSE <<>>) \o
                 (IF houses.raised THEN <<>> ELSE <<Sleep(3)>>),
         houses |-> houses.houses]

\* one pass of the loop of get_realty_mole_data.  The class defines no
\* parse_realty_mole_data: on a 200 response the call raises AttributeError,
\* and like any exception of the pass it skips time.sleep(1).
Mole_pass(outcome) ==
    [log |-> <<Request>> \o
             (IF outcome.status = "non-200" THEN <<Sleep(1)>> ELSE <<>>),
     houses |-> 0]

CacheDurationHours == 6    \* SmartDataManager(cache_duration_hours=6)

\* what get_cached_data returns: None, or the list under 'houses'
ReturnedNone == [raised |-> FALSE, none |-> TRUE, houses |-> 0]
ReturnedHouses(n) == [raised |-> FALSE, none |-> FALSE, houses |-> n]

\* mutant: a cache exactly cache_duration old still counts as fresh
Manager_get_cached_data_Inclusive(cache) ==
    IF cache.state = "absent" THEN ReturnedNone
    ELSE IF cache.state = "unreadable" THEN ReturnedNone
    ELSE IF cache.age <= CacheDurationHours THEN ReturnedHouses(cache.houses)
    ELSE ReturnedNone

\* real_data_integrator.py SmartDataManager.get_cached_data.  cache.age is
\* datetime.now() - cache_time, in hours.
Manager_get_cached_data(cache) ==
    IF cache.state = "absent" THEN ReturnedNone
    ELSE IF cache.state = "unreadable" THEN ReturnedNone
    ELSE IF cache.age < CacheDurationHours THEN ReturnedHouses(cache.houses)
    ELSE ReturnedNone

\* mutant: get_fresh_data goes to the API sources without looking at the cache
Fresh_get_cached_data_Skipped(cache) == 0

\* get_fresh_data's "cached_data = self.get_cached_data(); if cached_data:":
\* the number of houses it goes on with, 0 for None and for an empty list
Fresh_get_cached_data(cache) ==
    LET cached_data == Manager_get_cached_data(cache)
    IN  IF cached_data.none THEN 0 ELSE cached_data.houses

\* mutant: the fallback import is not guarded
Fresh_fallback_Unguarded(import_ok, samples) ==
    IF import_ok THEN [raised |-> FALSE, source |-> "sample", houses |-> samples]
    ELSE [raised |-> TRUE, source |-> "none", houses |-> 0]

\* get_fresh_data's fallback: the sample houses of all_in_one_house_hunter's
\* HouseDataCollector, or [] when the import (or the call) raises
Fresh_fallback(import_ok, samples) ==
    IF import_ok THEN [raised |-> FALSE, source |-> "sample", houses |-> samples]
    ELSE [raised |-> FALSE, source |-> "none", houses |-> 0]

----------------------------------------------------------------------------
(* Inputs.                                                                 *)

MaxPriceIdx == 32     \* prices run to MaxPriceIdx * $25,000
MaxMiles == 20        \* houses lie up to MaxMiles miles from downtown
MaxScoreIdx == 100    \* get_recommendation is tried on k/100, k <= MaxScoreIdx
MaxRows == 3          \* a combined dataset has up to MaxRows rows
MaxPriceThousands == 400  \* label prices run to MaxPriceThousands * $1,000
MaxPriorities == 2    \* a quiz taker ticks up to MaxPriorities priorities
MaxListings == 2      \* a response body holds up to MaxListings valid listings
MaxAddresses == 3     \* get_realty_mole_data is handed up to MaxAddresses addresses

SearchConfigs == 4    \* len(search_configs) of get_comprehensive_data
SampleHouses == 15    \* the houses HouseDataCollector.get_minneapolis_houses returns

PriceGrid == {25000 * k : k \in 2..MaxPriceIdx}
Budgets == {300000, DefaultMaxBudget}
MinBudgets == {200000, 300000}
Noises == {Rat(-2, 100), Zero, Rat(2, 100)}

\* the neighborhoods of the loaded data, the sidebar's default selection
Neighborhoods == {"Minneapolis", "Plymouth"}

\* the sample house the pairs below vary one attribute of
DefaultHouse ==
    [price |-> Num(350000), bedrooms |-> Num(3), sqft |-> Num(1500),
     year_built |-> Num(2010), latitude |-> Num(0), lot_size |-> Num(7000),
     days_on_market |-> Num(30), price_change |-> Num(0),
     school_rating |-> Num(8), walk_score |-> Num(60),
     has_garage |-> "True", neighborhood |-> "Minneapolis"]

With(house, field, value) == [house EXCEPT ![field] = value]

\* houses over the validated ranges and around the preferences' breakpoints
Houses ==
    {[price |-> Num(p), bedrooms |-> b, sqft |-> Num(s), year_built |-> Num(y),
      latitude |-> Num(l), lot_size |-> Num(gl[2]),
      days_on_market |-> Num(m[1]), price_change |-> Num(m[2]),
      school_rating |-> Num(sw[1]), walk_score |-> Num(sw[2]),
      has_garage |-> gl[1], neighborhood |-> sw[3]] :
        p \in {50000, 400000, 450000, 2000000},
        b \in {Num(1), Num(3), Num(4), None, Str},
        s \in {500, 1200, 10000},
        y \in {1900, 2000, 2025},
        l \in {0, 15, 16, 0 - MaxMiles},
        gl \in {<<"True", 8000>>, <<"False", 5000>>, <<"None", 6000>>},
        m \in {<<0, -1000>>, <<30, 0>>, <<90, 5000>>},
        sw \in {<<0, 0, "Minneapolis">>, <<10, 100, "Plymouth">>}}

NoRec == [by |-> "none"]
NoProp == [by |-> "none"]

\* no collection, dashboard, quiz or API caller is running
Offline ==
    /\ dataset = NoProp
    /\ dash = NoProp
    /\ quiz = NoProp
    /\ net = NoProp

Idle ==
    /\ rec = NoRec
    /\ prop = NoProp
    /\ kept = NoProp
    /\ Offline

\* one house of Houses, the default budget
Init ==
    /\ max_budget = DefaultMaxBudget
    /\ min_budget = 200000
    /\ batch \in {<<h>> : h \in Houses}
    /\ results = <<>>
    /\ Idle

\* two houses that differ in price alone
InitPrice ==
    /\ max_budget \in Budgets
    /\ min_budget \in MinBudgets
    /\ batch \in {<<With(DefaultHouse, "price", Num(pp[1])),
                    With(DefaultHouse, "price", Num(pp[2]))>> :
                      pp \in {q \in PriceGrid \X PriceGrid : q[1] <= q[2]}}
    /\ results = <<>>
    /\ Idle

\* two houses that differ in position alone
InitCommute ==
    /\ max_budget = DefaultMaxBudget
    /\ min_budget = 200000
    /\ batch \in {<<With(DefaultHouse, "latitude", Num(ll[1])),
                    With(DefaultHouse, "latitude", Num(ll[2]))>> :
                      ll \in {q \in (0..MaxMiles) \X (0..MaxMiles) : q[1] <= q[2]}}
    /\ results = <<>>
    /\ Idle

\* raw listings: each validated field missing, unreadable, in range, or out
\* of range below or above
Listings ==
    {[price |-> p, bedrooms |-> b, bathrooms |-> ba, sqft |-> s,
      year_built |-> y, latitude |-> l] :
        p \in {None, Empty, Str, Num(10000), Num(350000), Num(2500000)},
        b \in {None, Num(0), Num(4), Num(12)},
        ba \in {Num(0), Num(2)},
        s \in {Str, Num(100), Num(1800), Num(20000)},
        y \in {None, Num(1850), Num(1995), Num(2030)},
        l \in {None, Num(5), Num(100)}}

\* one raw listing, as the API or a CSV file delivers it
InitClean ==
    /\ max_budget = DefaultMaxBudget
    /\ min_budget = 200000
    /\ batch = <<>>
    /\ results = <<>>
    /\ rec = NoRec
    /\ prop \in {l @@ [by |-> "api"] : l \in Listings}
    /\ kept = NoProp
    /\ Offline

\* a direct call of get_recommendation
InitRecommend ==
    /\ max_budget = DefaultMaxBudget
    /\ min_budget = 200000
    /\ batch = <<>>
    /\ results = <<>>
    /\ rec \in {[by |-> "none", score |-> Rat(k, 100), meets_requirements |-> m] :
                    k \in 0..MaxScoreIdx, m \in BOOLEAN}
    /\ prop = NoProp
    /\ kept = NoProp
    /\ Offline

\* raw house dictionaries: each validated field absent, None, empty,
\* unreadable, in range, or out of range below or above
RawHouses ==
    {[DefaultHouse EXCEPT !.price = p, !.bedrooms = b, !.sqft = s,
                          !.year_built = y] @@ [bathrooms |-> Num(2)] :
        p \in {Missing, None, Empty, Str, Num(10000), Num(350000), Num(2500000)},
        b \in {Missing, None, Str, Num(0), Num(4), Num(12)},
        s \in {Missing, Str, Num(100), Num(1800), Num(20000)},
        y \in {None, Num(1850), Num(1995), Num(2030)}}

\* one raw house dictionary, before it is normalized for the scorer
InitNormalize ==
    /\ max_budget = DefaultMaxBudget
    /\ min_budget = 200000
    /\ batch = <<>>
    /\ results = <<>>
    /\ rec = NoRec
    /\ prop \in {h @@ [by |-> "raw"] : h \in RawHouses}
    /\ kept = NoProp
    /\ Offline

\* the quiz's priority checkboxes, in the order the form lists them
QuizPriorities ==
    <<"Low maintenance", "Good schools", "Walkable area", "Privacy",
      "Modern updates", "Large yard", "Home office", "Storage space",
      "Investment potential", "Energy efficiency">>

\* the ticked priorities, in form order
SelectedPriorities ==
    {[i \in DOMAIN q |-> QuizPriorities[q[i]]] :
        q \in {q \in UNION {[1..n -> DOMAIN QuizPriorities] : n \in 0..MaxPriorities} :
                  \A i \in DOMAIN q : i > 1 => q[i - 1] < q[i]}}

QuizAnswers ==
    [buyer_type : DOMAIN Seamless_buyer_type_mapping,
     work_situation : {"Fixed office location", "Hybrid work", "Fully remote", "Retired"},
     priorities : SelectedPriorities,
     budget_flexibility : {"Very tight", "Somewhat flexible"}]

\* a completed quiz, before its answers are analyzed
InitQuiz ==
    /\ max_budget = DefaultMaxBudget
    /\ min_budget = 200000
    /\ batch = <<>>
    /\ results = <<>>
    /\ rec = NoRec
    /\ prop = NoProp
    /\ kept = NoProp
    /\ dataset = NoProp
    /\ dash = NoProp
    /\ quiz \in {[by |-> "answers", answers |-> a] : a \in QuizAnswers}
    /\ net = NoProp

\* a collected house whose bedrooms field is a number, absent, unreadable
\* or infinite
InitFail ==
    /\ max_budget = DefaultMaxBudget
    /\ min_budget = 200000
    /\ batch \in {<<[DefaultHouse EXCEPT !.price = Num(p), !.bedrooms = b]>> :
                    p \in PriceGrid, b \in {Num(2), Num(4), Missing, None, Str, Inf}}
    /\ results = <<>>
    /\ Idle

\* the outcomes of one HTTP GET
Outcomes == {Ok(n) : n \in 0..MaxListings} \cup {Non200, NetworkError, Unparsable}

\* hours between the cache's timestamp and now: a timestamp ahead of the
\* clock, a new cache, and the hours around cache_duration
Ages == {-1, 0, CacheDurationHours - 1, CacheDurationHours, CacheDurationHours + 1}

\* real_estate_cache.json: no file, a file that open, json.load, ['timestamp'],
\* fromisoformat or ['houses'] fails on, or a written cache, its age and houses
Caches ==
    {[state |-> st, age |-> 0, houses |-> 0] : st \in {"absent", "unreadable"}}
    \cup {[state |-> "written", age |-> a, houses |-> n] :
              a \in Ages, n \in 0..MaxListings}

\* no caller of the listings APIs has started
InitNet ==
    /\ max_budget = DefaultMaxBudget
    /\ min_budget = 200000
    /\ batch = <<>>
    /\ results = <<>>
    /\ Idle

\* one house, its price on a $1,000 grid from $100,000 up
InitLabel ==
    /\ max_budget = DefaultMaxBudget
    /\ min_budget = 200000
    /\ batch \in {<<With(DefaultHouse, "price", Num(1000 * k))>> :
                      k \in 100..MaxPriceThousands}
    /\ results = <<>>
    /\ Idle

\* the same house record handed to the scorer twice
InitTwice ==
    /\ max_budget \in Budgets
    /\ min_budget \in MinBudgets
    /\ batch \in {<<With(DefaultHouse, "price", Num(p)),
                    With(DefaultHouse, "price", Num(p))>> : p \in PriceGrid}
    /\ results = <<>>
    /\ Idle

\* the rows of the collected or loaded files
RowTypes ==
    {[zpid |-> z, address |-> a, file_date |-> fc[1], clean |-> fc[2]] :
        z \in {Num(1), Num(2), None},
        a \in {"12 Oak St", "48 Elm Ave"},
        fc \in {<<1, TRUE>>, <<2, TRUE>>, <<2, FALSE>>}}

Combined(types) == UNION {[1..n -> types] : n \in 1..MaxRows}

\* the rows of all sources put together (all_houses.extend, pd.concat); a
\* frame without the zpid column has no listing ID in any row
InitDedup ==
    /\ max_budget = DefaultMaxBudget
    /\ min_budget = 200000
    /\ batch = <<>>
    /\ results = <<>>
    /\ rec = NoRec
    /\ prop = NoProp
    /\ kept = NoProp
    /\ dataset \in
         {[by |-> "concat", has_zpid |-> TRUE, rows |-> rs] : rs \in Combined(RowTypes)}
         \cup
         {[by |-> "concat", has_zpid |-> FALSE, rows |-> rs] :
             rs \in Combined({r \in RowTypes : r.zpid = None})}
    /\ dash = NoProp
    /\ quiz = NoProp
    /\ net = NoProp

\* the file has no overall_score column
NoScore == [k |-> "missing", v |-> Zero]

\* a row of a CSV on disk: a house and, in a scored export, the overall
\* score all_in_one's scorer gave it under the budget of that scoring pass
CsvRows ==
    {With(DefaultHouse, "price", Num(p)) @@ [overall_score |-> NoScore] :
        p \in PriceGrid}
    \cup
    {With(DefaultHouse, "price", Num(p)) @@
        [overall_score |->
            Num(AIO_score_house(With(DefaultHouse, "price", Num(p)), b).overall_score)] :
        p \in PriceGrid, b \in Budgets}

\* a dashboard starts on a CSV, the sidebar holding the current preferences
InitDash ==
    /\ max_budget \in Budgets
    /\ min_budget = 200000
    /\ batch = <<>>
    /\ results = <<>>
    /\ rec = NoRec
    /\ prop = NoProp
    /\ kept = NoProp
    /\ dataset = NoProp
    /\ dash \in {[by |-> "csv", row |-> r] : r \in CsvRows}
    /\ quiz = NoProp
    /\ net = NoProp

----------------------------------------------------------------------------
(* The scoring loops: for each house of the data, score_house(house).  An  *)
(* exception that escapes score_house ends the run.                        *)

Next_house(who) ==
    /\ Len(results) < Len(batch)
    /\ \A i \in 1..Len(results) : results[i].by = who /\ ~results[i].raised

\* all_in_one_house_hunter.py main(): scorer.score_house(house) per row
ScoreHouseAllInOne ==
    /\ Next_house("all_in_one")
    /\ results' = Append(results, AIO_score_house(batch[Len(results) + 1], max_budget))
    /\ UNCHANGED <<max_budget, min_budget, batch, rec, prop, kept, dataset, dash, quiz, net>>

\* quick_start_scorer.py analyze_houses(): scorer.score_house(house.to_dict())
ScoreHouseQuick ==
    /\ Next_house("quick")
    /\ results' = Append(results, Quick_score_house(batch[Len(results) + 1], max_budget))
    /\ UNCHANGED <<max_budget, min_budget, batch, rec, prop, kept, dataset, dash, quiz, net>>

\* comprehensive_data_collector.py: scorer.score_house(house) per collected house
ScoreHouseComprehensive ==
    /\ Next_house("comprehensive")
    /\ results' = Append(results, Comp_score_house(batch[Len(results) + 1]))
    /\ UNCHANGED <<max_budget, min_budget, batch, rec, prop, kept, dataset, dash, quiz, net>>

\* dynamic_dashboard.py apply_enhanced_scoring(): scorer.calculate_score per row
ScoreHouseEnhanced ==
    /\ Next_house("enhanced")
    /\ \E noise \in Noises :
         results' = Append(results,
             Enh_calculate_score(batch[Len(results) + 1], min_budget, max_budget,
                                 Neighborhoods, noise))
    /\ UNCHANGED <<max_budget, min_budget, batch, rec, prop, kept, dataset, dash, quiz, net>>

\* quick_start_scorer.py analyze_houses: it builds its own QuickHouseScorer(),
\* whose max_budget is the constructor's 400000
Quick_analyze_houses(house) == Quick_score_house(house, DefaultMaxBudget)

\* streamlit_app.py main(): a scorer is built and given the sidebar's values
\* (max_budget is the sidebar's "Max Budget"), then results_df =
\* analyze_houses() is computed and displayed
AnalyzeHouses ==
    /\ Next_house("streamlit_app")
    /\ results' = Append(results,
                         [Quick_analyze_houses(batch[Len(results) + 1])
                             EXCEPT !.by = "streamlit_app"])
    /\ UNCHANGED <<max_budget, min_budget, batch, rec, prop, kept, dataset, dash, quiz, net>>

SpecApp == InitPrice /\ [][AnalyzeHouses]_vars

Next ==
    \/ ScoreHouseAllInOne
    \/ ScoreHouseQuick
    \/ ScoreHouseComprehensive
    \/ ScoreHouseEnhanced

GetRecommendationAllInOne ==
    /\ rec.by = "none"
    /\ rec' = [rec EXCEPT !.by = "all_in_one"] @@
              [label |-> AIO_get_recommendation(rec.score, rec.meets_requirements)]
    /\ UNCHANGED <<max_budget, min_budget, batch, results, prop, kept, dataset, dash, quiz, net>>

GetRecommendationComprehensive ==
    /\ rec.by = "none"
    /\ rec' = [rec EXCEPT !.by = "comprehensive"] @@
              [label |-> Comp_get_recommendation(rec.score, rec.meets_requirements)]
    /\ UNCHANGED <<max_budget, min_budget, batch, results, prop, kept, dataset, dash, quiz, net>>

NextRecommend ==
    \/ GetRecommendationAllInOne
    \/ GetRecommendationComprehensive

\* test_real_data.py parse_zillow_response over one listing
ExtractRapid ==
    /\ prop.by = "api"
    /\ kept.by = "none"
    /\ \E est \in EstimatedLatitudes :
         kept' = [by |-> "rapid", houses |-> Rapid_extract_property_details(prop, est)]
    /\ UNCHANGED <<max_budget, min_budget, batch, results, rec, prop, dataset, dash, quiz, net>>

\* comprehensive_data_collector.py parse_zillow_response over one listing
ExtractCollector ==
    /\ prop.by = "api"
    /\ kept.by = "none"
    /\ \E est \in EstimatedLatitudes :
         kept' = [by |-> "collector",
                  houses |-> Collector_extract_property_details(prop, est)]
    /\ UNCHANGED <<max_budget, min_budget, batch, results, rec, prop, dataset, dash, quiz, net>>

\* dynamic_dashboard.py load_all_data: clean_data(combined_df), one row
CleanData ==
    /\ prop.by = "api"
    /\ kept.by = "none"
    /\ kept' = [by |-> "loader", houses |-> Loader_clean_data(prop)]
    /\ UNCHANGED <<max_budget, min_budget, batch, results, rec, prop, dataset, dash, quiz, net>>

NextClean ==
    \/ ExtractRapid
    \/ ExtractCollector
    \/ CleanData

\* the normalized house, each field as the raw value it holds
Numbers(house) == [f \in DOMAIN house |-> Num(house[f])]

\* comprehensive_data_collector.py: cleaned_house = ensure_scoring_compatibility(house)
EnsureComprehensive ==
    /\ prop.by = "raw"
    /\ kept.by = "none"
    /\ kept' = [by |-> "comprehensive",
                house |-> Numbers([f \in NumericFields |->
                                      Comp_ensure_scoring_compatibility(prop)[f]])]
    /\ UNCHANGED <<max_budget, min_budget, batch, results, rec, prop, dataset, dash, quiz, net>>

\* test_real_data.py and live_dashboard_broken.py: ensure_scoring_compatibility(house_dict)
EnsureTestRealData ==
    /\ prop.by = "raw"
    /\ kept.by = "none"
    /\ kept' = [by |-> "test_real_data", house |-> Test_ensure_scoring_compatibility(prop)]
    /\ UNCHANGED <<max_budget, min_budget, batch, results, rec, prop, dataset, dash, quiz, net>>

\* test_real_data.py extract_property_details: house = self.clean_house_data(house)
CleanHouseData ==
    /\ prop.by = "raw"
    /\ kept.by = "none"
    /\ kept' = [by |-> "rapid", house |-> Numbers(Rapid_clean_house_data(prop))]
    /\ UNCHANGED <<max_budget, min_budget, batch, results, rec, prop, dataset, dash, quiz, net>>

NextNormalize ==
    \/ EnsureComprehensive
    \/ EnsureTestRealData
    \/ CleanHouseData

\* comprehensive_data_collector.py get_comprehensive_data: every collected
\* house has the zpid key
DeduplicateComprehensive ==
    /\ dataset.by = "concat"
    /\ dataset.has_zpid
    /\ dataset' = [by |-> "comprehensive", subset |-> "zpid",
                   combined |-> dataset.rows,
                   rows |-> Comp_deduplicate(dataset.rows)]
    /\ UNCHANGED <<max_budget, min_budget, batch, results, rec, prop, kept, dash, quiz, net>>

\* real_data_integrator.py get_enhanced_market_data
DeduplicateIntegrator ==
    /\ dataset.by = "concat"
    /\ dataset' = [by |-> "integrator", subset |-> "address",
                   combined |-> dataset.rows,
                   rows |-> Integrator_deduplicate(dataset.rows)]
    /\ UNCHANGED <<max_budget, min_budget, batch, results, rec, prop, kept, dash, quiz, net>>

\* dynamic_dashboard.py load_all_data
LoadAllData ==
    /\ dataset.by = "concat"
    /\ dataset' = [by |-> "loader",
                   subset |-> IF dataset.has_zpid THEN "zpid" ELSE "address",
                   combined |-> dataset.rows,
                   rows |-> Loader_deduplicate(dataset.rows, dataset.has_zpid)]
    /\ UNCHANGED <<max_budget, min_budget, batch, results, rec, prop, kept, dash, quiz, net>>

NextDedup ==
    \/ DeduplicateComprehensive
    \/ DeduplicateIntegrator
    \/ LoadAllData

\* live_dashboard.py load_house_data: data_files, in the order they are tried
Live_data_files ==
    <<"real_scored_houses.csv", "real_zillow_data.csv", "ai_house_analysis.csv">>

\* what load_house_data returns: the frame of a file, or the sample frame
LoadedFrom(source) == [raised |-> FALSE, source |-> source]

\* mutant: a file that exists and parses is returned whatever its columns
Live_load_house_data_NoValidation(files) ==
    LET usable == {i \in 1..Len(Live_data_files) :
                      files[Live_data_files[i]] \in {"no_columns", "ok"}}
    IN  IF usable = {} THEN LoadedFrom("sample_data")
        ELSE LoadedFrom(Live_data_files[CHOOSE i \in usable : \A j \in usable : i <= j])

RECURSIVE Live_try_files(_, _)
\* the loop "for filename in data_files" from the i-th file on: a file that
\* is absent, that pd.read_csv raises on, or that lacks a required column is
\* passed over
Live_try_files(files, i) ==
    IF i > Len(Live_data_files) THEN LoadedFrom("sample_data")
    ELSE IF files[Live_data_files[i]] = "ok" THEN LoadedFrom(Live_data_files[i])
    ELSE Live_try_files(files, i + 1)

\* live_dashboard.py load_house_data, the function under @st.cache_data
Live_load_house_data(files) == Live_try_files(files, 1)

Ttl == 300    \* @st.cache_data(ttl=300), seconds
MaxRuns == 3  \* the script is rerun up to MaxRuns times

\* a data file: not there, one pd.read_csv raises on, one without one of
\* address, price, bedrooms, sqft, or one with all four
FileStates == {"absent", "unreadable", "no_columns", "ok"}
Directories == [Range(Live_data_files) -> FileStates]

\* seconds between two reruns of the script
Waits == {60, 600}

\* st.cache_data holds no entry for load_house_data
NoMemo(files) == [valid |-> FALSE, at |-> 0, files |-> files, value |-> LoadedFrom("none")]

\* the dashboard has not run yet
InitLoad ==
    /\ max_budget = DefaultMaxBudget
    /\ min_budget = 200000
    /\ batch = <<>>
    /\ results = <<>>
    /\ rec = NoRec
    /\ prop = NoProp
    /\ kept = NoProp
    /\ dataset = NoProp
    /\ dash \in {[by |-> "load", files |-> f, now |-> 0, runs |-> 0,
                  memo |-> NoMemo(f), returning |-> FALSE, hit |-> FALSE,
                  returned |-> LoadedFrom("none")] : f \in Directories}
    /\ quiz = NoProp
    /\ net = NoProp

\* a collector script writes, replaces or removes a data file
ChangeFile ==
    /\ dash.by = "load"
    /\ dash.runs \in 1..(MaxRuns - 1)
    /\ \E name \in Range(Live_data_files), st \in FileStates :
         /\ dash.files[name] # st
         /\ dash' = [dash EXCEPT !.files[name] = st, !.returning = FALSE]
    /\ UNCHANGED <<max_budget, min_budget, batch, results, rec, prop, kept, dataset, quiz, net>>

\* live_dashboard.py main(): df, data_source = load_house_data().  Within
\* ttl seconds of the call that computed it, st.cache_data returns the
\* stored value and the function body does not run.
RunLoadHouseData ==
    /\ dash.by = "load"
    /\ dash.runs < MaxRuns
    /\ \E wait \in Waits :
         LET now == dash.now + wait
             hit == dash.memo.valid /\ now - dash.memo.at < Ttl
             value == IF hit THEN dash.memo.value ELSE Live_load_house_data(dash.files)
         IN  dash' = [dash EXCEPT
                         !.now = now, !.runs = @ + 1, !.returning = TRUE, !.hit = hit,
                         !.memo = IF hit THEN @
                                  ELSE [valid |-> TRUE, at |-> now,
                                        files |-> dash.files, value |-> value],
                         !.returned = value]
    /\ UNCHANGED <<max_budget, min_budget, batch, results, rec, prop, kept, dataset, quiz, net>>

\* the sidebar's "Refresh Data" button: st.cache_data.clear(); st.rerun()
RefreshData ==
    /\ dash.by = "load"
    /\ dash.runs \in 1..(MaxRuns - 1)
    /\ dash.memo.valid
    /\ dash' = [dash EXCEPT !.memo = NoMemo(dash.files), !.returning = FALSE]
    /\ UNCHANGED <<max_budget, min_budget, batch, results, rec, prop, kept, dataset, quiz, net>>

NextLoad ==
    \/ ChangeFile
    \/ RunLoadHouseData
    \/ RefreshData

SpecLoad == InitLoad /\ [][NextLoad]_vars

\* dynamic_dashboard.py create_enhanced_preferences_panel: the four sliders,
\* each from 0.0 in steps of 0.05 up to its maximum, given in steps
Enh_slider_steps == [price |-> 10, commute |-> 8, size |-> 6, age |-> 6]

\* the slider positions the sidebar allows
Sliders == [price : 0..Enh_slider_steps.price, commute : 0..Enh_slider_steps.commute,
            size : 0..Enh_slider_steps.size, age : 0..Enh_slider_steps.age]

\* create_enhanced_preferences_panel: the weights dictionary it returns; the
\* bedrooms and neighborhood weights are 60% and 40% of what the four
\* sliders leave of 1.0
Enh_panel_weights(sliders) ==
    LET price_weight == Rat(5 * sliders.price, 100)
        commute_weight == Rat(5 * sliders.commute, 100)
        size_weight == Rat(5 * sliders.size, 100)
        age_weight == Rat(5 * sliders.age, 100)
        remaining == RSub(One, RAdd(RAdd(RAdd(price_weight, commute_weight),
                                         size_weight), age_weight))
    IN  [price |-> price_weight, commute |-> commute_weight, size |-> size_weight,
         age |-> age_weight, bedrooms |-> RMul(remaining, Rat(6, 10)),
         neighborhood |-> RMul(remaining, Rat(4, 10))]

\* the sidebar with its sliders set
InitPanel ==
    /\ max_budget = DefaultMaxBudget
    /\ min_budget = 200000
    /\ batch = <<>>
    /\ results = <<>>
    /\ rec = NoRec
    /\ prop = NoProp
    /\ kept = NoProp
    /\ dataset = NoProp
    /\ dash \in {[by |-> "sliders", sliders |-> sl] : sl \in Sliders}
    /\ quiz = NoProp
    /\ net = NoProp

\* dynamic_dashboard.py main(): preferences, weights, df =
\* create_enhanced_preferences_panel(df); apply_enhanced_scoring(df,
\* preferences, weights)
CreateEnhancedPreferencesPanel ==
    /\ dash.by = "sliders"
    /\ dash' = [by |-> "panel", sliders |-> dash.sliders,
                weights |-> Enh_panel_weights(dash.sliders)]
    /\ UNCHANGED <<max_budget, min_budget, batch, results, rec, prop, kept, dataset, quiz, net>>

SpecPanel == InitPanel /\ [][CreateEnhancedPreferencesPanel]_vars

\* live_dashboard.py main(): load_house_data(), filters, sort, display
LoadLive ==
    /\ dash.by = "csv"
    /\ dash' = [by |-> "live", row |-> dash.row, shown |-> Live_shown(dash.row)]
    /\ UNCHANGED <<max_budget, min_budget, batch, results, rec, prop, kept, dataset, quiz, net>>

\* live_dashboard_broken.py main(): load_house_data(), filters, display
LoadLiveBroken ==
    /\ dash.by = "csv"
    /\ dash' = [by |-> "live_broken", row |-> dash.row, shown |-> Broken_shown(dash.row)]
    /\ UNCHANGED <<max_budget, min_budget, batch, results, rec, prop, kept, dataset, quiz, net>>

\* dynamic_dashboard.py main(): load_all_data(), apply_enhanced_scoring()
LoadDynamic ==
    /\ dash.by = "csv"
    /\ \E noise \in Noises :
         dash' = [by |-> "dynamic", row |-> dash.row,
                  shown |-> Dynamic_shown(dash.row, min_budget, max_budget,
                                          Neighborhoods, noise)]
    /\ UNCHANGED <<max_budget, min_budget, batch, results, rec, prop, kept, dataset, quiz, net>>

NextDash ==
    \/ LoadLive
    \/ LoadLiveBroken
    \/ LoadDynamic

Spec == Init /\ [][Next]_vars
SpecDash == InitDash /\ [][NextDash]_vars
\* seamless_integrated_profiler.py: analyzer.analyze_quiz_responses(answers)
AnalyzeQuizResponses ==
    /\ quiz.by = "answers"
    /\ quiz' = [by |-> "seamless", answers |-> quiz.answers] @@
                Seamless_analyze_quiz_responses(quiz.answers)
    /\ UNCHANGED <<max_budget, min_budget, batch, results, rec, prop, kept, dataset, dash, net>>

\* parameter_workshop_fixed.py: recommend_parameters(answers), then
\* display_recommendations(recommendations, answers)
DisplayRecommendations ==
    /\ quiz.by = "answers"
    /\ quiz' = [by |-> "workshop", answers |-> quiz.answers] @@
                Workshop_display_recommendations(Workshop_recommend_parameters(quiz.answers))
    /\ UNCHANGED <<max_budget, min_budget, batch, results, rec, prop, kept, dataset, dash, net>>

\* parameter_definitions.py: recommend_parameters(answers)
RecommendParameters ==
    /\ quiz.by = "answers"
    /\ quiz' = [by |-> "definitions", answers |-> quiz.answers,
                recommendations |-> Defs_recommend_parameters(quiz.answers)]
    /\ UNCHANGED <<max_budget, min_budget, batch, results, rec, prop, kept, dataset, dash, net>>

NextQuiz ==
    \/ RecommendParameters
    \/ AnalyzeQuizResponses
    \/ DisplayRecommendations

\* a caller that has not returned: its API key, the passes of its loop so
\* far, the calls it made and their results, its requests and sleeps
Running(who, has_key, todo) ==
    [by |-> who, has_key |-> has_key, todo |-> todo, i |-> 0, calls |-> <<>>,
     log |-> <<>>, all_houses |-> 0, done |-> FALSE]

NetUnchanged ==
    UNCHANGED <<max_budget, min_budget, batch, results, rec, prop, kept, dataset, dash, quiz>>

\* a caller builds ZillowDataCollector(), with or without RAPIDAPI_KEY in
\* the environment, and calls search_minneapolis_houses() once
CallSearch ==
    /\ net.by = "none"
    /\ \E has_key \in BOOLEAN, outcome \in Outcomes :
         LET pass == Comp_search_pass(has_key, outcome)
         IN  net' = [Running("search", has_key, 1) EXCEPT
                        !.i = 1, !.calls = <<pass.call>>,
                        !.log = IF Requested(has_key) THEN <<Request>> ELSE <<>>,
                        !.all_houses = pass.houses, !.done = TRUE]
    /\ NetUnchanged

\* get_comprehensive_data: without RAPIDAPI_KEY it returns None at once
CompStart ==
    /\ net.by = "none"
    /\ \E has_key \in BOOLEAN :
         net' = [Running("comprehensive", has_key, SearchConfigs) EXCEPT
                    !.done = ~has_key]
    /\ NetUnchanged

\* get_comprehensive_data: one pass of "for i, config in enumerate(search_configs)"
CompSearchPass ==
    /\ net.by = "comprehensive"
    /\ ~net.done
    /\ net.i < net.todo
    /\ \E outcome \in Outcomes :
         LET pass == Comp_search_pass(net.has_key, outcome)
         IN  net' = [net EXCEPT !.i = @ + 1,
                                !.calls = Append(@, pass.call),
                                !.log = @ \o pass.log,
                                !.all_houses = @ + pass.houses,
                                !.done = (net.i + 1 = net.todo)]
    /\ NetUnchanged

\* get_realty_mole_data(address_list): without REALTY_MOLE_KEY it returns []
MoleStart ==
    /\ net.by = "none"
    /\ \E has_key \in BOOLEAN, addresses \in 1..MaxAddresses :
         net' = [Running("realty_mole", has_key, addresses) EXCEPT !.done = ~has_key]
    /\ NetUnchanged

\* get_realty_mole_data: one pass of "for address in address_list[:10]"
MolePass ==
    /\ net.by = "realty_mole"
    /\ ~net.done
    /\ net.i < net.todo
    /\ \E outcome \in Outcomes :
         LET pass == Mole_pass(outcome)
         IN  net' = [net EXCEPT !.i = @ + 1,
                                !.log = @ \o pass.log,
                                !.all_houses = @ + pass.houses,
                                !.done = (net.i + 1 = net.todo)]
    /\ NetUnchanged

\* get_enhanced_market_data's sources, in the order it tries them
Sources == <<"get_zillow_rentals_api", "get_rapidapi_zillow">>

\* the call source_func() of get_enhanced_market_data
Integrator_source(fn, has_key, outcome) ==
    IF fn = "get_zillow_rentals_api"
    THEN Integrator_get_zillow_rentals_api(has_key, outcome)
    ELSE Integrator_get_rapidapi_zillow(has_key, outcome)

NotReturned == [raised |-> FALSE, source |-> "pending", houses |-> 0]

\* SmartDataManager.get_fresh_data up to "if cached_data: return cached_data"
FreshStart ==
    /\ net.by = "none"
    /\ \E cache \in Caches, keys \in [Range(Sources) -> BOOLEAN],
          import_ok \in BOOLEAN :
         LET cached_data == Fresh_get_cached_data(cache)
         IN  net' = [by |-> "fresh", cache |-> cache, keys |-> keys,
                     import_ok |-> import_ok, i |-> 0, calls |-> <<>>,
                     all_houses |-> 0, saved |-> FALSE, done |-> (cached_data > 0),
                     returned |-> IF cached_data > 0
                                  THEN [raised |-> FALSE, source |-> "cache",
                                        houses |-> cached_data]
                                  ELSE NotReturned]
    /\ NetUnchanged

\* get_enhanced_market_data: one pass of "for source_name, source_func in
\* sources", whose try/except swallows what source_func raises
FreshSource ==
    /\ net.by = "fresh"
    /\ ~net.done
    /\ net.i < Len(Sources)
    /\ \E outcome \in Outcomes :
         LET fn == Sources[net.i + 1]
             houses == Integrator_source(fn, net.keys[fn], outcome)
         IN  net' = [net EXCEPT
                        !.i = @ + 1,
                        !.calls = Append(@, [fn |-> fn, has_key |-> net.keys[fn],
                                             outcome |-> outcome, returned |-> houses]),
                        !.all_houses = @ + (IF houses.raised THEN 0 ELSE houses.houses)]
    /\ NetUnchanged

\* the end of get_enhanced_market_data (drop_duplicates on address keeps at
\* least one of the houses) and the rest of get_fresh_data: save_to_cache
\* of a non-empty fresh_data, or the fallback
FreshFinish ==
    /\ net.by = "fresh"
    /\ ~net.done
    /\ net.i = Len(Sources)
    /\ \E unique \in 0..net.all_houses :
         /\ (net.all_houses > 0) => (unique > 0)
         /\ net' = [net EXCEPT
                       !.done = TRUE,
                       !.saved = (unique > 0),
                       !.returned = IF unique > 0
                                    THEN [raised |-> FALSE, source |-> "api",
                                          houses |-> unique]
                                    ELSE Fresh_fallback(net.import_ok, SampleHouses)]
    /\ NetUnchanged

\* manager = SmartDataManager(); manager.get_cached_data()
GetCachedData ==
    /\ net.by = "none"
    /\ \E cache \in Caches :
         net' = [by |-> "get_cached_data", cache |-> cache,
                 returned |-> Manager_get_cached_data(cache)]
    /\ NetUnchanged

NextNet ==
    \/ GetCachedData
    \/ CallSearch
    \/ CompStart
    \/ CompSearchPass
    \/ MoleStart
    \/ MolePass
    \/ FreshStart
    \/ FreshSource
    \/ FreshFinish

SpecNet == InitNet /\ [][NextNet]_vars

SpecQuiz == InitQuiz /\ [][NextQuiz]_vars
SpecTwice == InitTwice /\ [][Next]_vars
SpecFail == InitFail /\ [][ScoreHouseComprehensive]_vars
SpecDedup == InitDedup /\ [][NextDedup]_vars
SpecNormalize == InitNormalize /\ [][NextNormalize]_vars
SpecClean == InitClean /\ [][NextClean]_vars
SpecPrice == InitPrice /\ [][Next]_vars
SpecLabel == InitLabel /\ [][ScoreHouseAllInOne \/ ScoreHouseComprehensive]_vars
SpecCommute == InitCommute /\ [][Next]_vars
SpecRecommend == InitRecommend /\ [][NextRecommend]_vars

----------------------------------------------------------------------------
(* Properties.                                                             *)

\* both houses of a pair have been scored by the scorer who
ScoredPair(who) ==
    /\ Len(batch) = 2
    /\ Len(results) = 2
    /\ \A i \in 1..2 : results[i].by = who /\ ~results[i].raised

\* the i-th house has been scored, by one of the scorers in whos
ScoredBy(i, whos) ==
    /\ i \in 1..Len(results)
    /\ results[i].by \in whos
    /\ ~results[i].raised

\* the max budget the scorer who compares a price with
BudgetOf(who) == IF who = "comprehensive" THEN DefaultMaxBudget ELSE max_budget

PriceOf(i) == batch[i].price.v
MinutesOf(i) == CommuteMinutes(batch[i].latitude.v)

PlainScorers == {"all_in_one", "quick", "comprehensive"}

\* C1: for a fixed max budget and prices p1 <= p2 <= max budget, the price
\* score of p1 is at least the price score of p2, in both AdvancedHouseScorers
\* and in QuickHouseScorer.
C1_PriceScoreNonIncreasing ==
    \A who \in PlainScorers :
        (ScoredPair(who) /\ PriceOf(1) <= PriceOf(2) /\ PriceOf(2) <= BudgetOf(who))
            => RGe(results[1].raw.price, results[2].raw.price)

C1_Witness ==
    /\ ScoredPair("quick")
    /\ PriceOf(1) < PriceOf(2)
    /\ PriceOf(2) = max_budget
    /\ RGt(results[1].raw.price, results[2].raw.price)

\* C2: every price strictly over max budget scores strictly less than the
\* price equal to max budget.
C2_OverBudgetScoresLess ==
    \A who \in PlainScorers :
        (ScoredPair(who) /\ PriceOf(1) = BudgetOf(who) /\ PriceOf(2) > BudgetOf(who))
            => RLt(results[2].raw.price, results[1].raw.price)

\* C3: meets_requirements is false whenever the house has fewer bedrooms than
\* the minimum, whatever the overall score.
C3_FewBedroomsNeverMeets ==
    \A i \in 1..Len(results) :
        (/\ ScoredBy(i, {"all_in_one", "comprehensive"})
         /\ IsNum(batch[i].bedrooms)
         /\ batch[i].bedrooms.v < MinBedrooms)
            => ~results[i].meets_requirements

C3_Witness ==
    /\ ScoredBy(1, {"comprehensive"})
    /\ IsNum(batch[1].bedrooms)
    /\ batch[1].bedrooms.v < MinBedrooms
    /\ RGe(results[1].overall_score, Rat(85, 100))
    /\ ~results[1].meets_requirements

\* the validated ranges of validate_house_data, and the scales of the ratings
InValidatedRanges(house) ==
    /\ AllNumeric(house)
    /\ house.price.v >= 50000 /\ house.price.v <= 2000000
    /\ house.bedrooms.v >= 1 /\ house.bedrooms.v <= 10
    /\ house.sqft.v >= 500 /\ house.sqft.v <= 10000
    /\ house.year_built.v >= 1900 /\ house.year_built.v <= 2025
    /\ house.school_rating.v >= 0 /\ house.school_rating.v <= 10
    /\ house.walk_score.v >= 0 /\ house.walk_score.v <= 100

\* C4: with the default weights, every per-criterion score and the overall
\* score that score_house returns for a house within the validated ranges lie
\* in [0, 1].
C4_ScoresInUnitInterval ==
    \A i \in 1..Len(results) :
        (ScoredBy(i, PlainScorers) /\ InValidatedRanges(batch[i]))
            => /\ \A c \in DOMAIN results[i].scores : In01(results[i].scores[c])
               /\ In01(results[i].overall_score)

C4_Witness ==
    /\ ScoredBy(1, {"all_in_one"})
    /\ InValidatedRanges(batch[1])
    /\ results[1].scores.size = One
    /\ results[1].scores.commute = Zero
    /\ RGt(results[1].overall_score, Rat(5, 10))

\* C5: meets_requirements is false whenever the estimated commute exceeds the
\* configured maximum commute.
C5_OverCommuteNeverMeets ==
    \A i \in 1..Len(results) :
        (/\ ScoredBy(i, {"all_in_one", "comprehensive"})
         /\ IsNum(batch[i].latitude)
         /\ MinutesOf(i) > MaxCommuteMinutes)
            => ~results[i].meets_requirements

\* C6 as stated: the price sub-score of EnhancedHouseScorer is non-increasing
\* in price over all prices at or under max budget.
C6_EnhancedNonIncreasingUnderBudget ==
    (ScoredPair("enhanced") /\ PriceOf(1) <= PriceOf(2) /\ PriceOf(2) <= max_budget)
        => RGe(results[1].raw.price, results[2].raw.price)

\* C6 amended: the price sub-score of EnhancedHouseScorer is non-increasing in
\* price over the prices from the midpoint of [min budget, max budget] up to
\* max budget.
C6_EnhancedNonIncreasingFromMidpoint ==
    (/\ ScoredPair("enhanced")
     /\ 2 * PriceOf(1) >= min_budget + max_budget
     /\ PriceOf(1) <= PriceOf(2)
     /\ PriceOf(2) <= max_budget)
        => RGe(results[1].raw.price, results[2].raw.price)

C6_Witness ==
    /\ ScoredPair("enhanced")
    /\ min_budget < max_budget
    /\ 2 * PriceOf(1) = min_budget + max_budget
    /\ PriceOf(2) = max_budget
    /\ results[1].raw.price = One
    /\ RLt(results[2].raw.price, Rat(75, 100))

CommuteScorers == {"all_in_one", "comprehensive", "enhanced"}

\* C7 as stated: the commute score is zero for every house beyond the
\* configured maximum commute.
C7_ZeroBeyondMaxCommute ==
    \A i \in 1..Len(results) :
        (ScoredBy(i, CommuteScorers) /\ MinutesOf(i) > MaxCommuteMinutes)
            => results[i].raw.commute = Zero

\* C7 amended: beyond the maximum commute the score is zero in the all-in-one
\* AdvancedHouseScorer and QuickHouseScorer, 0.2 in the comprehensive
\* collector's scorer and within [0.1, 0.55) in EnhancedHouseScorer; in every
\* scorer it is below the score of any house within the limit.
C7_LowBeyondMaxCommute ==
    /\ \A i \in 1..Len(results) :
        (ScoredBy(i, CommuteScorers \cup {"quick"}) /\ MinutesOf(i) > MaxCommuteMinutes)
            => LET c == results[i].raw.commute
               IN  CASE results[i].by \in {"all_in_one", "quick"} -> c = Zero
                     [] results[i].by = "comprehensive" -> c = Rat(2, 10)
                     [] OTHER -> RGe(c, Rat(1, 10)) /\ RLt(c, Rat(55, 100))
    /\ \A who \in CommuteScorers \cup {"quick"} :
        (/\ ScoredPair(who)
         /\ MinutesOf(1) <= MaxCommuteMinutes
         /\ MinutesOf(2) > MaxCommuteMinutes)
            => RLt(results[2].raw.commute, results[1].raw.commute)

C7_Witness ==
    /\ ScoredPair("all_in_one")
    /\ MinutesOf(1) = MaxCommuteMinutes
    /\ MinutesOf(2) > MaxCommuteMinutes
    /\ results[2].raw.commute = Zero
    /\ RGt(results[1].raw.commute, Zero)

LinearScorers == {"all_in_one", "quick", "comprehensive"}

\* C8 as stated: within the limit the commute score falls from 1.0 at zero
\* drive time to 0 at the maximum commute.
C8_FallsToZeroAtMax ==
    \A i \in 1..Len(results) :
        ScoredBy(i, LinearScorers)
            => /\ MinutesOf(i) = 0 => results[i].raw.commute = One
               /\ MinutesOf(i) = MaxCommuteMinutes => results[i].raw.commute = Zero

\* the score a scorer gives a drive time equal to the maximum commute
FloorOf(who) == IF who = "quick" THEN Rat(3, 10) ELSE Rat(4, 10)

\* C8 amended: within the limit the commute score falls off linearly from 1.0
\* at zero drive time to 0.4 (0.3 in QuickHouseScorer) at the maximum commute.
C8_LinearToFloorAtMax ==
    /\ \A i \in 1..Len(results) :
        ScoredBy(i, LinearScorers)
            => /\ MinutesOf(i) = 0 => results[i].raw.commute = One
               /\ MinutesOf(i) = MaxCommuteMinutes
                    => results[i].raw.commute = FloorOf(results[i].by)
    /\ \A who \in LinearScorers :
        (ScoredPair(who) /\ MinutesOf(2) <= MaxCommuteMinutes)
            => RMul(RSub(results[1].raw.commute, results[2].raw.commute),
                    RInt(MaxCommuteMinutes))
               = RMul(RSub(One, FloorOf(who)), RInt(MinutesOf(2) - MinutesOf(1)))

C8_Witness ==
    /\ ScoredPair("quick")
    /\ MinutesOf(1) = 0
    /\ MinutesOf(2) = MaxCommuteMinutes
    /\ results[1].raw.commute = One
    /\ results[2].raw.commute = Rat(3, 10)

\* the bands of C9
C9_Band(score, meets_requirements) ==
    IF ~meets_requirements THEN "SKIP"
    ELSE IF RGe(score, Rat(85, 100)) THEN "MUST SEE"
    ELSE IF RGe(score, Rat(75, 100)) THEN "HIGHLY RECOMMENDED"
    ELSE IF RGe(score, Rat(65, 100)) THEN "GOOD OPTION"
    ELSE IF RGe(score, Rat(55, 100)) THEN "DECENT"
    ELSE "BELOW THRESHOLD"

\* C9 as stated: MUST SEE exactly at >= 0.85, HIGHLY RECOMMENDED exactly in
\* [0.75, 0.85), then GOOD at >= 0.65, DECENT at >= 0.55, otherwise BELOW
\* THRESHOLD; SKIP whenever the requirements are not met.
C9_BandsWithDecent ==
    rec.by # "none" => rec.label = C9_Band(rec.score, rec.meets_requirements)

\* C9 amended: as stated for the all-in-one scorer; the comprehensive
\* collector's scorer has no DECENT band and labels every score under 0.65
\* that meets the requirements BELOW THRESHOLD.
C9_BandsPerScorer ==
    /\ rec.by = "all_in_one"
        => rec.label = C9_Band(rec.score, rec.meets_requirements)
    /\ rec.by = "comprehensive"
        => rec.label =
             IF rec.meets_requirements /\ RLt(rec.score, Rat(65, 100))
             THEN "BELOW THRESHOLD"
             ELSE C9_Band(rec.score, rec.meets_requirements)

C9_Witness ==
    /\ rec.by = "comprehensive"
    /\ rec.meets_requirements
    /\ rec.score = Rat(55, 100)
    /\ rec.label = "BELOW THRESHOLD"

\* the sane ranges of the validated fields
RangedFields == {"price", "bedrooms", "bathrooms", "sqft", "year_built"}
RangeLo == [price |-> 50000, bedrooms |-> 1, bathrooms |-> 1, sqft |-> 500,
            year_built |-> 1900]
RangeHi == [price |-> 2000000, bedrooms |-> 10, bathrooms |-> 10, sqft |-> 10000,
            year_built |-> 2025]
OutOfRange(f) == IsNum(prop[f]) /\ (prop[f].v < RangeLo[f] \/ prop[f].v > RangeHi[f])

\* the default a collector or loader has for a field
DefaultOf(who, f) ==
    IF who = "rapid" THEN Rapid_defaults[f]
    ELSE IF who = "loader" THEN Loader_numeric_defaults[f]
    ELSE [price |-> 0, bedrooms |-> 3, bathrooms |-> 2, sqft |-> 1200,
          year_built |-> 2000][f]

\* C10 as stated: a listing with a numeric field outside its sane range is
\* never dropped; the value is replaced with its default and the listing kept.
C10_OutOfRangeReplacedAndKept ==
    kept.by # "none" =>
        \A f \in RangedFields :
            OutOfRange(f) =>
                /\ Len(kept.houses) = 1
                /\ kept.houses[1][f] = DefaultOf(kept.by, f)

\* C10 amended: a listing whose price is outside $50,000..$2,000,000 is
\* dropped by every collector and loader, and validate_house_data and
\* clean_data drop a listing with any validated field out of range; only
\* ZillowRapidAPI.clean_house_data keeps a listing (one with a price in range)
\* whose sqft, year built or bedroom count is out of range, with that value
\* replaced by its default.
C10_OutOfRangePriceDropped ==
    kept.by # "none" =>
        /\ OutOfRange("price") => kept.houses = <<>>
        /\ (kept.by \in {"collector", "loader"} /\ \E f \in RangedFields : OutOfRange(f))
              => kept.houses = <<>>
        /\ (kept.by = "rapid" /\ IsNum(prop.price) /\ ~OutOfRange("price"))
              => /\ Len(kept.houses) = 1
                 /\ \A f \in {"sqft", "year_built", "bedrooms"} :
                        OutOfRange(f) => kept.houses[1][f] = Rapid_defaults[f]

C10_Witness ==
    /\ kept.by = "rapid"
    /\ OutOfRange("sqft")
    /\ OutOfRange("bedrooms")
    /\ ~OutOfRange("price")
    /\ Len(kept.houses) = 1
    /\ kept.houses[1].sqft = 1200
    /\ kept.houses[1].bedrooms = 3

----------------------------------------------------------------------------
(* Normalization.                                                          *)

\* the house a normalizer returned
Normalized(whos) == kept.by \in whos

\* the fields the claim gives a sane range for
SaneFields == {"price", "bedrooms", "sqft", "year_built"}

\* the default table of a version of ensure_scoring_compatibility
EnsureDefault(who, f) ==
    IF who = "comprehensive" THEN Comp_defaults[f] ELSE Test_scorer_defaults[f]

InSaneRange(house, f) ==
    /\ IsNum(house[f])
    /\ RangeLo[f] <= house[f].v
    /\ house[f].v <= RangeHi[f]

\* C11: after ensure_scoring_compatibility or clean_house_data, price,
\* bedrooms, sqft and year_built of the returned house each lie within the
\* sane range (price 50,000..2,000,000, bedrooms 1..10, sqft 500..10,000,
\* year built 1900..2025).
C11_NormalizedInSaneRanges ==
    Normalized({"comprehensive", "test_real_data", "rapid"}) =>
        \A f \in SaneFields : InSaneRange(kept.house, f)

\* C12: the house ensure_scoring_compatibility returns holds a number in
\* every numeric field: the record's own value when that is a number (and,
\* where the field is validated, in range), the default otherwise.
C12_EnsuredFieldsAreNumbers ==
    Normalized({"comprehensive", "test_real_data"}) =>
        \A f \in DOMAIN kept.house :
            /\ IsNum(kept.house[f])
            /\ (IsNum(prop[f]) /\ (f \in SaneFields => InSaneRange(prop, f))
                    => kept.house[f] = prop[f])
            /\ (~IsNum(prop[f])
                    => kept.house[f] = Num(EnsureDefault(kept.by, f)))

----------------------------------------------------------------------------
(* Deduplication.                                                          *)

Deduplicated == dataset.by \in {"comprehensive", "integrator", "loader"}

----------------------------------------------------------------------------
(* Dashboards.                                                             *)

\* the scores the dashboard's own scorer gives the row's house under the
\* preferences the sidebar holds now
Recomputed(who, row) ==
    IF who = "dynamic"
    THEN {Enh_calculate_score(row, min_budget, max_budget, Neighborhoods, noise).overall_score :
            noise \in Noises}
    ELSE {AIO_score_house(row, max_budget).overall_score}

\* C14: a dashboard that loaded a CSV with an overall_score column ranks and
\* displays scores recomputed from the house and the current preferences,
\* not the scores of the file.
C14_ShownScoresRecomputed ==
    dash.by \in {"live", "live_broken", "dynamic"} /\ IsNum(dash.row.overall_score) =>
        /\ dash.shown.source = "scorer"
        /\ dash.shown.overall_score \in Recomputed(dash.by, dash.row)

----------------------------------------------------------------------------
(* Determinism.                                                            *)

\* the same house has been scored twice by who
ScoredTwice(who) == ScoredPair(who) /\ batch[1] = batch[2]

----------------------------------------------------------------------------
(* Quiz weights.                                                           *)

\* sum(weights.values())
RECURSIVE RSum(_, _)
RSum(f, keys) ==
    IF keys = {} THEN Zero
    ELSE LET x == CHOOSE x \in keys : TRUE
         IN  RAdd(f[x], RSum(f, keys \ {x}))

\* C16: for every set of quiz answers the weights of the recommended
\* parameters, high, medium and low priority together, sum to 1.0.
C16_WeightsSumToOne ==
    quiz.by \in {"seamless", "workshop"} =>
        RSum(quiz.param_weights, DOMAIN quiz.param_weights) = One

----------------------------------------------------------------------------
(* Failure of scoring.                                                     *)

\* C17: score_house of the comprehensive collector never raises; when a
\* step of scoring fails it returns the default-filled result: every score
\* 0, meets_requirements false, the 'Scoring failed' recommendation.
C17_ScoreHouseNeverRaises ==
    \A i \in 1..Len(results) :
        results[i].by = "comprehensive" =>
            /\ ~results[i].raised
            /\ results[i].failed = Comp_ensure_raises(batch[i])
            /\ (results[i].failed =>
                    /\ results[i].overall_score = Zero
                    /\ \A k \in DOMAIN results[i].scores : results[i].scores[k] = Zero
                    /\ ~results[i].meets_requirements
                    /\ results[i].recommendation = "Scoring failed")

\* a house whose bedrooms value made int() overflow came back default-filled
C17_Witness ==
    /\ Len(results) = 1
    /\ batch[1].bedrooms = Inf
    /\ results[1].by = "comprehensive"
    /\ results[1].failed
    /\ results[1].recommendation = "Scoring failed"

----------------------------------------------------------------------------
(* Callers of the listings APIs.                                           *)

\* the calls of the listings searches a caller has made so far
Calls == IF net.by \in {"search", "comprehensive", "fresh"} THEN net.calls ELSE <<>>

\* C18: a listings search never raises to its caller: on a missing API key,
\* a non-200 response, a network error or an unparsable body,
\* search_minneapolis_houses, get_zillow_rentals_api and get_rapidapi_zillow
\* return an empty list.
C18_SearchNeverRaises ==
    \A j \in 1..Len(Calls) :
        /\ ~Calls[j].returned.raised
        /\ (~Calls[j].has_key \/ Calls[j].outcome.status # "200") =>
               Calls[j].returned.houses = 0

\* get_rapidapi_zillow met a network error and get_zillow_rentals_api had
\* no key: both returned the empty list
C18_Witness ==
    /\ net.by = "fresh"
    /\ Len(net.calls) = 2
    /\ net.calls[1].fn = "get_zillow_rentals_api"
    /\ ~net.calls[1].has_key
    /\ net.calls[1].returned = Returned(0)
    /\ net.calls[2].fn = "get_rapidapi_zillow"
    /\ net.calls[2].has_key
    /\ net.calls[2].outcome = NetworkError
    /\ net.calls[2].returned = Returned(0)

\* get_fresh_data has returned, and neither the cache nor a source gave a house
NoDataAnywhere ==
    /\ net.by = "fresh"
    /\ net.done
    /\ Fresh_get_cached_data(net.cache) = 0
    /\ net.all_houses = 0

SampleData == [raised |-> FALSE, source |-> "sample", houses |-> SampleHouses]

\* C19: when neither the cache nor any API source yields data,
\* get_fresh_data returns the built-in sample houses of
\* HouseDataCollector.get_minneapolis_houses and never raises.
C19_FallsBackToSampleHouses ==
    NoDataAnywhere => net.returned = SampleData

\* C19 (amended): when neither the cache nor any API source yields data,
\* get_fresh_data never raises; it returns the built-in sample houses when
\* all_in_one_house_hunter can be imported and its collector runs, and the
\* empty list when that fallback itself fails.
C19_SampleHousesOrEmpty ==
    NoDataAnywhere =>
        /\ ~net.returned.raised
        /\ net.import_ok => net.returned = SampleData
        /\ ~net.import_ok => (net.returned.source = "none" /\ net.returned.houses = 0)

\* no cache file, no key for either source, and the import of
\* all_in_one_house_hunter failed: get_fresh_data returned []
C19_Witness ==
    /\ NoDataAnywhere
    /\ net.cache.state = "absent"
    /\ \A fn \in Range(Sources) : ~net.keys[fn]
    /\ ~net.import_ok
    /\ ~net.returned.raised
    /\ net.returned.houses = 0

\* the requests and sleeps of a collection loop
LoopLog == IF net.by \in {"comprehensive", "realty_mole"} THEN net.log ELSE <<>>

\* C20: in every collection loop a fixed sleep occurs between any two
\* consecutive HTTP requests, whatever the outcome of the earlier request.
C20_SleepBetweenRequests ==
    \A j \in 1..(Len(LoopLog) - 1) :
        LoopLog[j].e = "request" => LoopLog[j + 1].e = "sleep"

----------------------------------------------------------------------------
(* The within-budget price score.                                          *)

\* 1 - (price / budget) * share, as one fraction
WithinBudgetScore(price, budget, share) ==
    Rat(share[2] * budget - share[1] * price, share[2] * budget)

\* C21: for a price at or under budget the price score equals
\* 1 - (price / max budget) * 0.4 in both AdvancedHouseScorers and in
\* QuickHouseScorer; a price of 300,000 with a budget of 400,000 scores 0.70.
C21_PriceScoreFourTenths ==
    \A i \in 1..Len(results) : \A who \in PlainScorers :
        (ScoredBy(i, {who}) /\ PriceOf(i) <= BudgetOf(who)) =>
            results[i].raw.price = WithinBudgetScore(PriceOf(i), BudgetOf(who), <<4, 10>>)

\* the share of the budget fraction each scorer takes off the price score
PriceShare(who) == IF who = "quick" THEN <<5, 10>> ELSE <<4, 10>>

\* C21 (amended): for a price at or under budget the price score equals
\* 1 - (price / max budget) * 0.4 in both AdvancedHouseScorers and
\* 1 - (price / max budget) * 0.5 in QuickHouseScorer; a price of 300,000
\* with a budget of 400,000 scores 0.70, respectively 0.625.
C21_PriceScorePerScorer ==
    \A i \in 1..Len(results) : \A who \in PlainScorers :
        (ScoredBy(i, {who}) /\ PriceOf(i) <= BudgetOf(who)) =>
            /\ results[i].raw.price =
                   WithinBudgetScore(PriceOf(i), BudgetOf(who), PriceShare(who))
            /\ (PriceOf(i) = 300000 /\ BudgetOf(who) = 400000) =>
                   results[i].raw.price = (IF who = "quick" THEN Rat(625, 1000)
                                           ELSE Rat(70, 100))

\* the all-in-one scorer gave the 300,000 house 0.70 under a 400,000 budget
C21_Witness ==
    /\ ScoredBy(1, {"all_in_one"})
    /\ PriceOf(1) = 300000
    /\ max_budget = 400000
    /\ results[1].raw.price = Rat(7, 10)
    /\ results[1].scores.price = Rat(7, 10)

----------------------------------------------------------------------------
(* The cache of SmartDataManager.                                          *)

\* C22: get_cached_data returns the cached houses if and only if the cache
\* file exists, is readable and its timestamp is strictly less than
\* cache_duration (6 hours by default) old; in every other case it returns
\* None; it never raises.
C22_CachedIffFresh ==
    net.by = "get_cached_data" =>
        /\ ~net.returned.raised
        /\ ~net.returned.none <=>
               (net.cache.state = "written" /\ net.cache.age < 6)
        /\ ~net.returned.none => net.returned.houses = net.cache.houses

\* a cache written exactly cache_duration ago is not returned
C22_Witness ==
    /\ net.by = "get_cached_data"
    /\ net.cache.state = "written"
    /\ net.cache.age = CacheDurationHours
    /\ net.cache.houses > 0
    /\ net.returned = ReturnedNone

\* get_fresh_data has returned and the cache it found was readable and unexpired
ReturnedWithFreshCache ==
    /\ net.by = "fresh"
    /\ net.done
    /\ net.cache.state = "written"
    /\ net.cache.age < CacheDurationHours

\* the cached houses were returned, no source was called, nothing was saved
CacheAlone ==
    /\ net.returned = [raised |-> FALSE, source |-> "cache", houses |-> net.cache.houses]
    /\ net.calls = <<>>
    /\ ~net.saved

----------------------------------------------------------------------------
(* The data file of the live dashboard.                                    *)

\* the files that exist, are readable and have the four required columns
Qualifying(files) == {i \in 1..Len(Live_data_files) : files[Live_data_files[i]] = "ok"}

\* the source the claim names for a directory: the first qualifying file in
\* the fixed order, the sample data when none qualifies
FirstQualifying(files) ==
    IF Qualifying(files) = {} THEN "sample_data"
    ELSE Live_data_files[CHOOSE i \in Qualifying(files) : \A j \in Qualifying(files) : i <= j]

\* load_house_data is returning to main()
Loaded == dash.by = "load" /\ dash.returning

\* C24: load_house_data returns the first file, in the fixed order
\* real_scored_houses.csv, real_zillow_data.csv, ai_house_analysis.csv, that
\* exists, is readable and has the columns address, price, bedrooms and
\* sqft; only if no file qualifies does it return the built-in sample data;
\* it never raises.
C24_FirstQualifyingFile ==
    Loaded =>
        /\ ~dash.returned.raised
        /\ dash.returned.source = FirstQualifying(dash.files)

\* C24 (amended): load_house_data never raises and returns the first file in
\* the fixed order that existed, was readable and had the four columns, or
\* the sample data when none did, as of the last time its body ran: the call
\* itself when st.cache_data holds no value younger than 300 seconds, an
\* earlier call less than 300 seconds ago otherwise, whatever has happened
\* to the files since.
C24_FirstQualifyingFileWhenComputed ==
    Loaded =>
        /\ ~dash.returned.raised
        /\ dash.memo.valid
        /\ dash.returned.source = FirstQualifying(dash.memo.files)
        /\ dash.now - dash.memo.at < Ttl
        /\ ~dash.hit => (dash.memo.at = dash.now /\ dash.memo.files = dash.files)

\* real_scored_houses.csv lacks a column and real_zillow_data.csv cannot be
\* read: the body ran and returned ai_house_analysis.csv
C24_Witness ==
    /\ Loaded
    /\ ~dash.hit
    /\ dash.files["real_scored_houses.csv"] = "no_columns"
    /\ dash.files["real_zillow_data.csv"] = "unreadable"
    /\ dash.files["ai_house_analysis.csv"] = "ok"
    /\ dash.returned = LoadedFrom("ai_house_analysis.csv")

----------------------------------------------------------------------------
(* Which of the duplicates load_all_data keeps.                            *)

\* the rows of the combined frame that share the deduplication key of row
SameKey(row) ==
    {i \in 1..Len(dataset.combined) :
        dataset.combined[i][dataset.subset] = row[dataset.subset]}

\* C25: deduplication in load_all_data prefers newer data: when the same
\* zpid (or, without a zpid column, the same address) appears in several
\* data files, the row kept is the one from the most recently modified file.
C25_NewestRowKept ==
    dataset.by = "loader" =>
        \A j \in 1..Len(dataset.rows) : \A i \in SameKey(dataset.rows[j]) :
            dataset.combined[i].file_date <= dataset.rows[j].file_date

\* listing 1 came first from the older file and then from the newer one;
\* the one row left for it is the newer file's
C25_Witness ==
    /\ dataset.by = "loader"
    /\ dataset.subset = "zpid"
    /\ Len(dataset.combined) = 2
    /\ dataset.combined[1].zpid = Num(1)
    /\ dataset.combined[2].zpid = Num(1)
    /\ dataset.combined[1].file_date = 1
    /\ dataset.combined[2].file_date = 2
    /\ Len(dataset.rows) = 1
    /\ dataset.rows[1].file_date = 2

----------------------------------------------------------------------------
(* The recommended parameters.                                             *)

\* the three returned lists, one after the other
AllRecommended ==
    quiz.recommendations.high_priority \o quiz.recommendations.medium_priority
        \o quiz.recommendations.low_priority

\* C26: recommend_parameters removes duplicates: for every set of quiz
\* answers, each parameter appears at most once across the returned
\* high_priority, medium_priority and low_priority lists.
C26_EachParameterOnce ==
    quiz.by \in {"definitions", "seamless", "workshop"} =>
        \A i, j \in 1..Len(AllRecommended) :
            i # j => AllRecommended[i] # AllRecommended[j]

----------------------------------------------------------------------------
(* The Streamlit app.                                                      *)

\* C27: the analysis shown by the Streamlit app uses the scorer created with
\* the custom sidebar preferences: the scores and is_viable flags displayed
\* equal those produced by a QuickHouseScorer whose max budget is the
\* sidebar's value.
C27_AnalysisUsesSidebar ==
    \A i \in 1..Len(results) :
        ScoredBy(i, {"streamlit_app"}) =>
            LET custom == Quick_score_house(batch[i], max_budget)
            IN  /\ results[i].scores = custom.scores
                /\ results[i].overall_score = custom.overall_score
                /\ results[i].is_viable = custom.is_viable

----------------------------------------------------------------------------
(* The label and the reported score.                                       *)

\* the threshold bands of the two get_recommendation methods, highest first
Bands(who) ==
    IF who = "all_in_one"
    THEN <<<<Rat(85, 100), "MUST SEE">>, <<Rat(75, 100), "HIGHLY RECOMMENDED">>,
           <<Rat(65, 100), "GOOD OPTION">>, <<Rat(55, 100), "DECENT">>>>
    ELSE <<<<Rat(85, 100), "MUST SEE">>, <<Rat(75, 100), "HIGHLY RECOMMENDED">>,
           <<Rat(65, 100), "GOOD OPTION">>>>

\* the label of the band of who's thresholds that contains score
BandOf(who, score) ==
    LET reached == {b \in 1..Len(Bands(who)) : RGe(score, Bands(who)[b][1])}
    IN  IF reached = {} THEN "BELOW THRESHOLD"
        ELSE Bands(who)[CHOOSE b \in reached : \A c \in reached : b <= c][2]

\* C28: in every result returned by score_house for a house that meets
\* requirements, the recommendation label is the threshold band that
\* contains the overall_score reported in that same result (the value
\* rounded to 3 decimals).
C28_LabelMatchesReportedScore ==
    \A i \in 1..Len(results) : \A who \in {"all_in_one", "comprehensive"} :
        (ScoredBy(i, {who}) /\ results[i].meets_requirements) =>
            results[i].recommendation = BandOf(who, results[i].overall_score)

----------------------------------------------------------------------------
(* Rows without a listing ID.                                              *)

\* C29: deduplication in load_all_data removes only true duplicates: two
\* rows are collapsed only when they carry the same non-missing zpid, so
\* distinct houses coming from files that have no zpid value are all
\* retained in the combined dataset.
C29_RowsWithoutZpidRetained ==
    (dataset.by = "loader" /\ dataset.subset = "zpid") =>
        \A i \in 1..Len(dataset.combined) :
            (dataset.combined[i].zpid = None /\ dataset.combined[i].clean) =>
                \E j \in 1..Len(dataset.rows) :
                    /\ dataset.rows[j].zpid = None
                    /\ dataset.rows[j].address = dataset.combined[i].address

----------------------------------------------------------------------------
(* The weights of the dynamic dashboard.                                   *)

\* C30: for every combination of the four importance sliders allowed by the
\* dashboard sidebar (price up to 0.5, commute up to 0.4, size up to 0.3,
\* age up to 0.3), each of the six weights passed to scoring, including the
\* auto-calculated bedrooms and neighborhood weights, is greater than or
\* equal to 0.
C30_WeightsNonNegative ==
    dash.by = "panel" =>
        \A w \in DOMAIN dash.weights : RGe(dash.weights[w], Zero)

====
